---- MODULE Spec2Model ----
(***************************************************************************)
(* Model of the dm-worker controller (dm/worker/worker.go): the Worker     *)
(* life cycle (NewWorker, Start, Close), the local operations on subtasks  *)
(* and on the relay purger, ForbidPurge, and the two expected-stage         *)
(* followers (subtasks, relay) with their watch producers and resyncs.      *)
(*                                                                         *)
(* Every goroutine is a process with a program counter.  One step of the   *)
(* model is one atomic piece of the code: taking or releasing the Worker   *)
(* lock, reading or writing the atomic closed flag, one call on the        *)
(* subTaskHolder, one channel operation.                                    *)
(***************************************************************************)
EXTENDS Integers, Sequences, FiniteSets, TLC

\* ------------------------------------------------------------------ bounds

\* Number of writes the control plane makes to the store (revisions).
MaxRev == 2
\* Number of local operations the control plane invokes.
MaxCalls == 2
\* Number of retryable failures the store produces (watch or read).
MaxFaults == 2
\* Length of the filter rule lists of a source config and of a task config.
MaxRules == 2
\* Relay sub-directory suffixes and binlog file sequence numbers.
MaxSuffix == 2
MaxSeq == 2

\* ---------------------------------------------------------------- constants

\* Task names known to the store.
Tasks == {"t1", "t2"}
\* cfg.Name of the zero value of config.SubTaskConfig.
EmptyName == ""
Names == Tasks \cup {EmptyName}

\* The goroutines that invoke Close.
Closers == {"close1", "close2"}

\* Capacity of the stage and error channels of a watch.
ChanCap == 10

RpcOps == {"StartSubTask", "UpdateSubTask", "OperateSubTask", "OperateSchema",
           "HandleError", "QueryStatus", "PurgeRelay"}
TaskOps == {"Stop", "Pause", "Resume", "AutoResume"}
ExpectStages == {"Running", "Paused"}

\* ---------------------------------------------------------------- variables

VARIABLES
    closed,             \* w.closed == closedTrue
    ctxDone,            \* w.ctx has been cancelled
    wg,                 \* counter of w.wg
    lock,               \* holder of w.RWMutex, or "free"
    subTaskHolder,      \* task name -> the SubTask recorded under it
    orphaned,           \* names of live SubTasks whose record was overwritten
    relayHolder,        \* "nil", or the stage of w.relayHolder
    relayPurger,        \* "nil", "inited", "started", "closed"
    purging,            \* relayPurger.Purging()
    taskStatusChecker,  \* "inited", "started", "closed"
    startPc,            \* position of the goroutine running Start
    closePc,            \* position of each goroutine running Close
    teardowns,          \* number of times the teardown of Close has run
    call,               \* the local operation in progress, per caller
    hist,               \* history: the number of local operations invoked so
                        \* far, the tasks whose StartSubTask returned
                        \* success after Close had been invoked, and the
                        \* invocations of Close made after that of Start
    fp,                 \* the invocation of ForbidPurge in progress
    purgerPass,         \* the background purger is in an eviction pass
    \* the coordination store
    rev,                \* revision of the last write
    stStage,            \* task -> expected stage of the subtask, or "None"
    stCfg,              \* task -> whether the store holds a config for it
    subLog,             \* the subtask stage events, in revision order
    relStage,           \* expected stage of the relay, or "None"
    relLog,             \* the relay stage events, in revision order
    faults,             \* number of retryable failures produced so far
    \* EnableHandleSubtasks and the subtask follower it spawns
    subPc,              \* position
    subRev,             \* rev of observeSubtaskStage
    subSnap,            \* what fetchSubTasksAndAdjust returned
    subTodo,            \* entries of the config map still to visit
    subSts,             \* sts of resetSubtaskStage
    subEv,              \* the stage record being applied
    subCfgName,         \* Name of the config passed to operateSubTaskStage
    subErr,             \* what handleSubTaskStage returned
    subStageCh,         \* subTaskStageCh
    subErrCh,           \* subTaskErrCh
    subChClosed,        \* both channels have been closed
    subProd,            \* position of the watch producer
    subFrom,            \* next revision the watch delivers
    subCtx1Done,        \* cancel1 has been called
    \* EnableRelay and the relay follower it spawns
    relPc,
    relRev,
    relEv,
    relErr,
    relStageCh,
    relErrCh,
    relChClosed,
    relProd,
    relFrom,
    relCtx1Done,
    \* configuration
    wcfg,               \* w.cfg: the relay start fields EnableRelay sets
    ckpt,               \* task -> the checkpoint the subtask has persisted
    proj                \* a task config under copyConfigFromSource

coreVars == <<closed, ctxDone, wg, lock, subTaskHolder, orphaned, relayHolder,
              relayPurger, purging, taskStatusChecker, startPc, closePc,
              teardowns, call, hist, fp, purgerPass>>

storeVars == <<rev, stStage, stCfg, subLog, relStage, relLog, faults>>

subVars == <<subPc, subRev, subSnap, subTodo, subSts, subEv, subCfgName, subErr,
             subStageCh, subErrCh, subChClosed, subProd, subFrom, subCtx1Done>>

relVars == <<relPc, relRev, relEv, relErr, relStageCh, relErrCh, relChClosed,
             relProd, relFrom, relCtx1Done>>

envVars == <<storeVars, subVars, relVars>>

cfgVars == <<wcfg, ckpt, proj>>

vars == <<coreVars, storeVars, subVars, relVars, cfgVars>>

\* ------------------------------------------------------------------ SubTask

\* NewSubTask: a SubTask in stage New, with no result and no pipeline.
NewSubTask == [stage |-> "New", result |-> "none", live |-> FALSE]

\* SubTask.fail: the result is recorded and the SubTask is driven to Paused.
SubTaskFail(st, err) == [st EXCEPT !.stage = "Paused", !.result = err]

\* SubTask.Run: from New to the expected stage, Running or Paused; the pipeline
\* is started.  Any other expected stage is a configuration error.
SubTaskRun(st, expect) ==
    IF expect \in {"Running", "Paused"}
    THEN [st EXCEPT !.stage = expect, !.result = "none", !.live = TRUE]
    ELSE SubTaskFail(st, "InvalidExpectStage")

\* SubTask.Pause is legal from Running only.
SubTaskPauseOK(st) == st.stage = "Running"
SubTaskPause(st) == IF SubTaskPauseOK(st) THEN [st EXCEPT !.stage = "Paused"] ELSE st

\* SubTask.Resume is legal from Paused only; it (re)starts the pipeline.
SubTaskResumeOK(st) == st.stage = "Paused"
SubTaskResume(st) ==
    IF SubTaskResumeOK(st)
    THEN [st EXCEPT !.stage = "Running", !.result = "none", !.live = TRUE]
    ELSE st

\* SubTask.Update is legal in Paused only.
SubTaskUpdateOK(st) == st.stage = "Paused"

\* SubTask.Close is terminal: the pipeline is stopped.
SubTaskClose(st) == [st EXCEPT !.stage = "Stopped", !.live = FALSE]

\* ------------------------------------------------------------ subTaskHolder

findSubTask(h, name) == name \in DOMAIN h

recordSubTask(h, name, st) ==
    [n \in DOMAIN h \cup {name} |-> IF n = name THEN st ELSE h[n]]

removeSubTask(h, name) == [n \in DOMAIN h \ {name} |-> h[n]]

\* closeAllSubTasks closes every recorded SubTask and empties the holder.
closeAllSubTasks(h) == [n \in {} |-> NewSubTask]

getAllSubTasks(h) == DOMAIN h

EmptyHolder == [n \in {} |-> NewSubTask]

\* ---------------------------------------------------------- local operations

\* The goroutines that invoke the lock-protected operations: the control
\* plane's RPC (and the status checker, which calls OperateSubTask), and the
\* subtask side (EnableHandleSubtasks and the follower it spawns).
Callers == {"rpc", "sub"}

NoCall == [pc |-> "none", op |-> "none", name |-> EmptyName, arg |-> "none",
           fault |-> "none", res |-> "none"]

NewCall(op, name, arg, fault) ==
    [pc |-> "wait", op |-> op, name |-> name, arg |-> arg, fault |-> fault,
     res |-> "none"]

\* The operations that take w.Lock() (QueryStatus: w.RLock()) on entry.
LockedOps == {"StartSubTask", "UpdateSubTask", "OperateSubTask", "OperateSchema",
              "HandleError", "QueryStatus"}

\* w.Lock() / w.RLock(): blocks until the lock is free.
CallEnter(th) ==
    /\ call[th].pc = "wait"
    /\ call[th].op \in LockedOps
    /\ lock = "free"
    /\ lock' = th
    /\ call' = [call EXCEPT ![th].pc = "in"]
    /\ UNCHANGED <<closed, ctxDone, wg, subTaskHolder, orphaned, relayHolder,
                   relayPurger, purging, taskStatusChecker, startPc, closePc,
                   teardowns, hist, fp, purgerPass>>
    /\ UNCHANGED envVars
    /\ UNCHANGED cfgVars

\* StartSubTask, first half: copyConfigFromSource, NewSubTask, recordSubTask.
\* A projection error (the filter rules do not compile) is returned as is.
StartSubTaskProjectionFails(c) == c.fault = "filter"

StartSubTaskRecord(th) ==
    /\ call[th].pc = "in"
    /\ call[th].op = "StartSubTask"
    /\ IF StartSubTaskProjectionFails(call[th])
       THEN /\ call' = [call EXCEPT ![th].pc = "done", ![th].res = "ProjectionError"]
            /\ UNCHANGED <<subTaskHolder, orphaned>>
       ELSE /\ subTaskHolder' = recordSubTask(subTaskHolder, call[th].name, NewSubTask)
            /\ orphaned' = IF /\ findSubTask(subTaskHolder, call[th].name)
                              /\ subTaskHolder[call[th].name].live
                           THEN orphaned \cup {call[th].name}
                           ELSE orphaned
            /\ call' = [call EXCEPT ![th].pc = "mid"]
    /\ UNCHANGED <<closed, ctxDone, wg, lock, relayHolder, relayPurger, purging,
                   taskStatusChecker, startPc, closePc, teardowns, hist, fp,
                   purgerPass>>
    /\ UNCHANGED envVars
    /\ UNCHANGED cfgVars

\* A StartSubTask that leaves the recorded SubTask as it is while the purger is
\* purging, without failing it.
StartSubTaskOutcomeNoPurgeFail(isClosed, fault, purgerSet, isPurging, st, expect) ==
    IF isClosed THEN SubTaskFail(st, "WorkerAlreadyClosed")
    ELSE IF fault = "decrypt" THEN SubTaskFail(st, "DecryptFailed")
    ELSE IF purgerSet /\ isPurging THEN st
    ELSE SubTaskRun(st, expect)

\* A StartSubTask that does not read the closed flag.
StartSubTaskOutcomeIgnoresClosed(isClosed, fault, purgerSet, isPurging, st, expect) ==
    IF fault = "decrypt" THEN SubTaskFail(st, "DecryptFailed")
    ELSE IF purgerSet /\ isPurging THEN SubTaskFail(st, "RelayIsPurging")
    ELSE SubTaskRun(st, expect)

\* StartSubTask, second half: what becomes of the recorded SubTask.
StartSubTaskOutcome(isClosed, fault, purgerSet, isPurging, st, expect) ==
    IF isClosed THEN SubTaskFail(st, "WorkerAlreadyClosed")
    ELSE IF fault = "decrypt" THEN SubTaskFail(st, "DecryptFailed")
    ELSE IF purgerSet /\ isPurging THEN SubTaskFail(st, "RelayIsPurging")
    ELSE SubTaskRun(st, expect)

StartSubTaskRun(th) ==
    /\ call[th].pc = "mid"
    /\ call[th].op = "StartSubTask"
    /\ subTaskHolder' =
          [subTaskHolder EXCEPT ![call[th].name] =
              StartSubTaskOutcome(closed, call[th].fault, relayPurger # "nil",
                                  purging, @, call[th].arg)]
    /\ call' = [call EXCEPT ![th].pc = "done", ![th].res = "ok"]
    /\ UNCHANGED <<closed, ctxDone, wg, lock, orphaned, relayHolder, relayPurger,
                   purging, taskStatusChecker, startPc, closePc, teardowns, hist,
                   fp, purgerPass>>
    /\ UNCHANGED envVars
    /\ UNCHANGED cfgVars

\* A guard that looks the task up before it reads the closed flag.
GuardErrorAbsentFirst(isClosed, h, name) ==
    IF ~findSubTask(h, name) THEN "SubTaskNotFound"
    ELSE IF isClosed THEN "WorkerAlreadyClosed"
    ELSE "none"

\* The error UpdateSubTask, OperateSubTask, OperateSchema and HandleError
\* return before they touch the SubTask, "none" when they go on.
GuardError(isClosed, h, name) ==
    IF isClosed THEN "WorkerAlreadyClosed"
    ELSE IF ~findSubTask(h, name) THEN "SubTaskNotFound"
    ELSE "none"

\* An OperateSubTask whose Stop closes the SubTask and leaves it in the holder.
OperateSubTaskHolderStopKeeps(isClosed, h, name, op) ==
    IF GuardError(isClosed, h, name) # "none" THEN h
    ELSE CASE op = "Stop" -> [h EXCEPT ![name] = SubTaskClose(@)]
           [] op = "Pause" -> [h EXCEPT ![name] = SubTaskPause(@)]
           [] op = "Resume" -> [h EXCEPT ![name] = SubTaskResume(@)]
           [] op = "AutoResume" -> [h EXCEPT ![name] = SubTaskResume(@)]
           [] OTHER -> h

\* OperateSubTask: the holder after the operation.
OperateSubTaskHolder(isClosed, h, name, op) ==
    IF GuardError(isClosed, h, name) # "none" THEN h
    ELSE CASE op = "Stop" -> removeSubTask(h, name)
           [] op = "Pause" -> [h EXCEPT ![name] = SubTaskPause(@)]
           [] op = "Resume" -> [h EXCEPT ![name] = SubTaskResume(@)]
           [] op = "AutoResume" -> [h EXCEPT ![name] = SubTaskResume(@)]
           [] OTHER -> h

\* OperateSubTask: the error returned.
OperateSubTaskResult(isClosed, h, name, op) ==
    IF GuardError(isClosed, h, name) # "none" THEN GuardError(isClosed, h, name)
    ELSE CASE op = "Stop" -> "ok"
           [] op = "Pause" -> IF SubTaskPauseOK(h[name]) THEN "ok" ELSE "StageError"
           [] op \in {"Resume", "AutoResume"} ->
                 IF SubTaskResumeOK(h[name]) THEN "ok" ELSE "StageError"
           [] OTHER -> "InvalidOp"

OperateSubTask(th) ==
    /\ call[th].pc = "in"
    /\ call[th].op = "OperateSubTask"
    /\ subTaskHolder' =
          OperateSubTaskHolder(closed, subTaskHolder, call[th].name, call[th].arg)
    /\ call' = [call EXCEPT ![th].pc = "done",
                  ![th].res = OperateSubTaskResult(closed, subTaskHolder,
                                                   call[th].name, call[th].arg)]
    /\ UNCHANGED <<closed, ctxDone, wg, lock, orphaned, relayHolder, relayPurger,
                   purging, taskStatusChecker, startPc, closePc, teardowns, hist,
                   fp, purgerPass>>
    /\ UNCHANGED envVars
    /\ UNCHANGED cfgVars

\* UpdateSubTask: st.Update(cfg) replaces the config of a paused SubTask.
UpdateSubTaskResult(isClosed, h, name) ==
    IF GuardError(isClosed, h, name) # "none" THEN GuardError(isClosed, h, name)
    ELSE IF SubTaskUpdateOK(h[name]) THEN "ok" ELSE "StageError"

\* OperateSchema, HandleError: passed through to the SubTask's pipeline.
PassThroughResult(isClosed, h, name) ==
    IF GuardError(isClosed, h, name) # "none" THEN GuardError(isClosed, h, name)
    ELSE "ok"

\* QueryStatus: nil on a closed Worker, else the status list.
QueryStatusResult(isClosed) == IF isClosed THEN "nil" ELSE "status"

\* UpdateSubTask, OperateSchema, HandleError, QueryStatus: none of them changes
\* the membership of the holder or a stage.
ReadOnlyOp(th) ==
    /\ call[th].pc = "in"
    /\ call[th].op \in {"UpdateSubTask", "OperateSchema", "HandleError", "QueryStatus"}
    /\ call' = [call EXCEPT ![th].pc = "done",
                  ![th].res =
                     CASE call[th].op = "UpdateSubTask" ->
                             UpdateSubTaskResult(closed, subTaskHolder, call[th].name)
                       [] call[th].op = "QueryStatus" -> QueryStatusResult(closed)
                       [] OTHER ->
                             PassThroughResult(closed, subTaskHolder, call[th].name)]
    /\ UNCHANGED <<closed, ctxDone, wg, lock, subTaskHolder, orphaned, relayHolder,
                   relayPurger, purging, taskStatusChecker, startPc, closePc,
                   teardowns, hist, fp, purgerPass>>
    /\ UNCHANGED envVars
    /\ UNCHANGED cfgVars

\* PurgeRelay takes no lock: the closed flag and w.relayPurger are read first.
PurgeRelayCheck(th) ==
    /\ call[th].pc = "wait"
    /\ call[th].op = "PurgeRelay"
    /\ call' = IF closed
               THEN [call EXCEPT ![th].pc = "done", ![th].res = "WorkerAlreadyClosed"]
               ELSE IF relayPurger = "nil"
               THEN [call EXCEPT ![th].pc = "done", ![th].res = "ok"]
               ELSE [call EXCEPT ![th].pc = "in"]
    /\ UNCHANGED <<closed, ctxDone, wg, lock, subTaskHolder, orphaned, relayHolder,
                   relayPurger, purging, taskStatusChecker, startPc, closePc,
                   teardowns, hist, fp, purgerPass>>
    /\ UNCHANGED envVars
    /\ UNCHANGED cfgVars

\* relayPurger.Do begins: refused while another purge is in progress.
PurgeRelayDoBegin(th) ==
    /\ call[th].pc = "in"
    /\ call[th].op = "PurgeRelay"
    /\ IF purging
       THEN /\ call' = [call EXCEPT ![th].pc = "done", ![th].res = "PurgerIsPurging"]
            /\ UNCHANGED purging
       ELSE /\ call' = [call EXCEPT ![th].pc = "mid"]
            /\ purging' = TRUE
    /\ UNCHANGED <<closed, ctxDone, wg, lock, subTaskHolder, orphaned, relayHolder,
                   relayPurger, taskStatusChecker, startPc, closePc, teardowns,
                   hist, fp, purgerPass>>
    /\ UNCHANGED envVars
    /\ UNCHANGED cfgVars

\* relayPurger.Do ends.
PurgeRelayDoEnd(th) ==
    /\ call[th].pc = "mid"
    /\ call[th].op = "PurgeRelay"
    /\ purging' = FALSE
    /\ call' = [call EXCEPT ![th].pc = "done", ![th].res = "ok"]
    /\ UNCHANGED <<closed, ctxDone, wg, lock, subTaskHolder, orphaned, relayHolder,
                   relayPurger, taskStatusChecker, startPc, closePc, teardowns,
                   hist, fp, purgerPass>>
    /\ UNCHANGED envVars
    /\ UNCHANGED cfgVars

\* One step inside a local operation of caller th.
CallStep(th) ==
    \/ CallEnter(th)
    \/ StartSubTaskRecord(th)
    \/ StartSubTaskRun(th)
    \/ OperateSubTask(th)
    \/ ReadOnlyOp(th)
    \/ PurgeRelayCheck(th)
    \/ PurgeRelayDoBegin(th)
    \/ PurgeRelayDoEnd(th)

\* The invocations the control plane can make.
RpcCalls ==
    {NewCall("StartSubTask", name, e, f) :
        name \in Tasks, e \in ExpectStages, f \in {"none", "filter", "decrypt"}}
    \cup {NewCall("OperateSubTask", name, o, "none") : name \in Tasks, o \in TaskOps}
    \cup {NewCall(op, name, "none", "none") :
             op \in {"UpdateSubTask", "OperateSchema", "HandleError", "QueryStatus"},
             name \in Tasks}
    \cup {NewCall("PurgeRelay", EmptyName, "none", "none")}

\* The control plane invokes one of the local operations of S.
RpcInvokeOf(S) ==
    /\ call["rpc"].pc = "none"
    /\ hist.calls < MaxCalls
    /\ hist' = [hist EXCEPT !.calls = @ + 1]
    /\ \E c \in S : call' = [call EXCEPT !["rpc"] = c]
    /\ UNCHANGED <<closed, ctxDone, wg, lock, subTaskHolder, orphaned, relayHolder,
                   relayPurger, purging, taskStatusChecker, startPc, closePc,
                   teardowns, fp, purgerPass>>
    /\ UNCHANGED envVars
    /\ UNCHANGED cfgVars

\* The control plane invokes a local operation.
RpcInvoke == RpcInvokeOf(RpcCalls)

\* The operation returns to the control plane; the deferred Unlock runs.
RpcReturn ==
    /\ call["rpc"].pc = "done"
    /\ call' = [call EXCEPT !["rpc"] = NoCall]
    /\ lock' = IF lock = "rpc" THEN "free" ELSE lock
    /\ hist' = IF /\ call["rpc"].op = "StartSubTask"
                  /\ call["rpc"].res = "ok"
                  /\ \E c \in Closers : closePc[c] # "idle"
               THEN [hist EXCEPT !.racedStart = @ \cup {call["rpc"].name}]
               ELSE hist
    /\ UNCHANGED <<closed, ctxDone, wg, subTaskHolder, orphaned, relayHolder,
                   relayPurger, purging, taskStatusChecker, startPc, closePc,
                   teardowns, fp, purgerPass>>
    /\ UNCHANGED envVars
    /\ UNCHANGED cfgVars

\* ------------------------------------------------------------------- Start

\* Start, up to the loop: the checker is started, w.wg.Add(1).
StartBegin ==
    /\ startPc = "idle"
    /\ startPc' = "added"
    /\ taskStatusChecker' = IF taskStatusChecker = "inited" THEN "started"
                            ELSE taskStatusChecker
    /\ wg' = wg + 1
    /\ UNCHANGED <<closed, ctxDone, lock, subTaskHolder, orphaned, relayHolder,
                   relayPurger, purging, closePc, teardowns, call, hist, fp,
                   purgerPass>>
    /\ UNCHANGED envVars
    /\ UNCHANGED cfgVars

\* w.closed.Set(closedFalse), then the status-logging loop.
StartOpen ==
    /\ startPc = "added"
    /\ startPc' = "running"
    /\ closed' = FALSE
    /\ UNCHANGED <<ctxDone, wg, lock, subTaskHolder, orphaned, relayHolder,
                   relayPurger, purging, taskStatusChecker, closePc, teardowns,
                   call, hist, fp, purgerPass>>
    /\ UNCHANGED envVars
    /\ UNCHANGED cfgVars

\* The loop selects <-w.ctx.Done(): Start returns, the deferred wg.Done runs.
StartExit ==
    /\ startPc = "running"
    /\ ctxDone
    /\ startPc' = "done"
    /\ wg' = wg - 1
    /\ UNCHANGED <<closed, ctxDone, lock, subTaskHolder, orphaned, relayHolder,
                   relayPurger, purging, taskStatusChecker, closePc, teardowns,
                   call, hist, fp, purgerPass>>
    /\ UNCHANGED envVars
    /\ UNCHANGED cfgVars

\* ------------------------------------------------------------------- Close

\* Close reads the closed flag: it returns at once on a closed Worker, else it
\* cancels the root context.
CloseBegin(c) ==
    /\ closePc[c] = "idle"
    /\ IF closed
       THEN /\ closePc' = [closePc EXCEPT ![c] = "returnedEarly"]
            /\ UNCHANGED ctxDone
       ELSE /\ closePc' = [closePc EXCEPT ![c] = "waitGroup"]
            /\ ctxDone' = TRUE
    /\ hist' = IF startPc # "idle"
               THEN [hist EXCEPT !.onStarted = @ \cup {c}]
               ELSE hist
    /\ UNCHANGED <<closed, wg, lock, subTaskHolder, orphaned, relayHolder,
                   relayPurger, purging, taskStatusChecker, startPc, teardowns,
                   call, fp, purgerPass>>
    /\ UNCHANGED envVars
    /\ UNCHANGED cfgVars

\* w.wg.Wait() returns.
CloseWait(c) ==
    /\ closePc[c] = "waitGroup"
    /\ wg = 0
    /\ closePc' = [closePc EXCEPT ![c] = "waitLock"]
    /\ UNCHANGED <<closed, ctxDone, wg, lock, subTaskHolder, orphaned,
                   relayHolder, relayPurger, purging, taskStatusChecker, startPc,
                   teardowns, call, hist, fp, purgerPass>>
    /\ UNCHANGED envVars
    /\ UNCHANGED cfgVars

\* w.Lock().
CloseLock(c) ==
    /\ closePc[c] = "waitLock"
    /\ lock = "free"
    /\ lock' = c
    /\ closePc' = [closePc EXCEPT ![c] = "closeSubTasks"]
    /\ UNCHANGED <<closed, ctxDone, wg, subTaskHolder, orphaned, relayHolder,
                   relayPurger, purging, taskStatusChecker, startPc, teardowns,
                   call, hist, fp, purgerPass>>
    /\ UNCHANGED envVars
    /\ UNCHANGED cfgVars

\* closeAllSubTasks, then relayHolder.Close() when a relay holder is set.
CloseSubTasks(c) ==
    /\ closePc[c] = "closeSubTasks"
    /\ subTaskHolder' = closeAllSubTasks(subTaskHolder)
    /\ relayHolder' = IF relayHolder # "nil" THEN "Stopped" ELSE relayHolder
    /\ teardowns' = teardowns + 1
    /\ closePc' = [closePc EXCEPT ![c] = "closePurger"]
    /\ UNCHANGED <<closed, ctxDone, wg, lock, orphaned, relayPurger, purging,
                   taskStatusChecker, startPc, call, hist, fp, purgerPass>>
    /\ UNCHANGED envVars
    /\ UNCHANGED cfgVars

\* relayPurger.Close() when a purger is set (it waits for the purger's own
\* goroutine to leave its pass), then taskStatusChecker.Close().
ClosePurger(c) ==
    /\ closePc[c] = "closePurger"
    /\ relayPurger # "nil" => (~purgerPass /\ ~(fp.pc # "none" /\ fp.by = "purger"))
    /\ relayPurger' = IF relayPurger # "nil" THEN "closed" ELSE relayPurger
    /\ taskStatusChecker' = "closed"
    /\ closePc' = [closePc EXCEPT ![c] = "setClosed"]
    /\ UNCHANGED <<closed, ctxDone, wg, lock, subTaskHolder, orphaned,
                   relayHolder, purging, startPc, teardowns, call, hist, fp,
                   purgerPass>>
    /\ UNCHANGED envVars
    /\ UNCHANGED cfgVars

\* w.closed.Set(closedTrue); Close returns and the deferred Unlock runs.
CloseEnd(c) ==
    /\ closePc[c] = "setClosed"
    /\ closed' = TRUE
    /\ lock' = "free"
    /\ closePc' = [closePc EXCEPT ![c] = "returned"]
    /\ UNCHANGED <<ctxDone, wg, subTaskHolder, orphaned, relayHolder, relayPurger,
                   purging, taskStatusChecker, startPc, teardowns, call, hist,
                   fp, purgerPass>>
    /\ UNCHANGED envVars
    /\ UNCHANGED cfgVars

CloseStep(c) ==
    \/ CloseBegin(c)
    \/ CloseWait(c)
    \/ CloseLock(c)
    \/ CloseSubTasks(c)
    \/ ClosePurger(c)
    \/ CloseEnd(c)

\* -------------------------------------------------------------- ForbidPurge

NoForbid == [pc |-> "none", by |-> "none", paused |-> FALSE, res |-> FALSE]

\* Whether some recorded SubTask is in stage Paused.
SomePaused(h) == \E n \in DOMAIN h : h[n].stage = "Paused"

\* ForbidPurge is invoked: by the purger before a pass, or directly through the
\* PurgeInterceptor interface.  paused remembers whether a SubTask was Paused
\* at the call.
ForbidPurgeCall(by) ==
    /\ fp.pc = "none"
    /\ by = "purger" => relayPurger = "started" /\ ~purgerPass
    /\ fp' = [pc |-> "check", by |-> by, paused |-> SomePaused(subTaskHolder),
              res |-> FALSE]
    /\ UNCHANGED <<closed, ctxDone, wg, lock, subTaskHolder, orphaned,
                   relayHolder, relayPurger, purging, taskStatusChecker, startPc,
                   closePc, teardowns, call, hist, purgerPass>>
    /\ UNCHANGED envVars
    /\ UNCHANGED cfgVars

\* A ForbidPurge that reads under the Worker lock.
ForbidPurgeUnderLock(lk) == lk = "free"

\* ForbidPurge takes no lock: it reads whoever holds w.RWMutex (lk).
ForbidPurgeMayRead(lk) == TRUE

\* What ForbidPurge answers from the closed flag alone: it returns (false, "")
\* on a closed Worker and goes on to the subtasks otherwise.
ForbidPurgeOnClosed(isClosed) == isClosed

ForbidPurgeCheck ==
    /\ fp.pc = "check"
    /\ ForbidPurgeMayRead(lock)
    /\ fp' = IF ForbidPurgeOnClosed(closed)
             THEN [fp EXCEPT !.pc = "done", !.res = FALSE]
             ELSE [fp EXCEPT !.pc = "scan"]
    /\ UNCHANGED <<closed, ctxDone, wg, lock, subTaskHolder, orphaned,
                   relayHolder, relayPurger, purging, taskStatusChecker, startPc,
                   closePc, teardowns, call, hist, purgerPass>>
    /\ UNCHANGED envVars
    /\ UNCHANGED cfgVars

\* A ForbidPurge that forbids only for a SubTask in New.
ForbidPurgeAnswerNewOnly(h) ==
    \E n \in getAllSubTasks(h) : h[n].stage = "New"

\* The loop over getAllSubTasks: true when a SubTask is in New or Paused.
ForbidPurgeAnswer(h) ==
    \E n \in getAllSubTasks(h) : h[n].stage \in {"New", "Paused"}

\* ForbidPurge takes no lock: the holder is read whoever holds w.RWMutex.
ForbidPurgeScan ==
    /\ fp.pc = "scan"
    /\ ForbidPurgeMayRead(lock)
    /\ fp' = [fp EXCEPT !.pc = "done", !.res = ForbidPurgeAnswer(subTaskHolder)]
    /\ UNCHANGED <<closed, ctxDone, wg, lock, subTaskHolder, orphaned,
                   relayHolder, relayPurger, purging, taskStatusChecker, startPc,
                   closePc, teardowns, call, hist, purgerPass>>
    /\ UNCHANGED envVars
    /\ UNCHANGED cfgVars

\* ForbidPurge returns; the purger begins an eviction pass unless vetoed.
ForbidPurgeReturn ==
    /\ fp.pc = "done"
    /\ fp' = NoForbid
    /\ IF fp.by = "purger" /\ ~fp.res /\ ~purging
       THEN purgerPass' = TRUE /\ purging' = TRUE
       ELSE UNCHANGED <<purgerPass, purging>>
    /\ UNCHANGED <<closed, ctxDone, wg, lock, subTaskHolder, orphaned,
                   relayHolder, relayPurger, taskStatusChecker, startPc, closePc,
                   teardowns, call, hist>>
    /\ UNCHANGED envVars
    /\ UNCHANGED cfgVars

\* The eviction pass of the background purger ends.
PurgerPassEnd ==
    /\ purgerPass
    /\ purgerPass' = FALSE
    /\ purging' = FALSE
    /\ UNCHANGED <<closed, ctxDone, wg, lock, subTaskHolder, orphaned,
                   relayHolder, relayPurger, taskStatusChecker, startPc, closePc,
                   teardowns, call, hist, fp>>
    /\ UNCHANGED envVars
    /\ UNCHANGED cfgVars

ForbidPurgeStep ==
    \/ \E by \in {"purger", "direct"} : ForbidPurgeCall(by)
    \/ ForbidPurgeCheck
    \/ ForbidPurgeScan
    \/ ForbidPurgeReturn
    \/ PurgerPassEnd

\* ------------------------------------------------------ coordination store

StoreStages == {"None", "Running", "Paused"}

\* The record the watch delivers for a write at revision r.  A deletion carries
\* no expected stage; cfg tells whether the store held a config for the task at
\* that revision (what GetSubTaskCfg at stage.Revision finds).
PutRecord(t, e, r, c) ==
    [task |-> t, expect |-> e, isDeleted |-> FALSE, rev |-> r, cfg |-> c]
DeleteRecord(t, r, c) ==
    [task |-> t, expect |-> "InvalidStage", isDeleted |-> TRUE, rev |-> r, cfg |-> c]
NoRecord ==
    [task |-> EmptyName, expect |-> "InvalidStage", isDeleted |-> FALSE, rev |-> 0,
     cfg |-> FALSE]

CanWrite == rev < 1 + MaxRev

\* The control plane writes a subtask's config together with its stage.
StorePutSubTask(t, e) ==
    /\ CanWrite
    /\ rev' = rev + 1
    /\ stStage' = [stStage EXCEPT ![t] = e]
    /\ stCfg' = [stCfg EXCEPT ![t] = TRUE]
    /\ subLog' = Append(subLog, PutRecord(t, e, rev + 1, TRUE))
    /\ UNCHANGED <<relStage, relLog, faults>>
    /\ UNCHANGED <<coreVars, subVars, relVars>>
    /\ UNCHANGED cfgVars

\* The control plane changes the expected stage of a subtask (pause, resume).
StorePutStage(t, e) ==
    /\ CanWrite
    /\ stStage[t] # e
    /\ rev' = rev + 1
    /\ stStage' = [stStage EXCEPT ![t] = e]
    /\ subLog' = Append(subLog, PutRecord(t, e, rev + 1, stCfg[t]))
    /\ UNCHANGED <<stCfg, relStage, relLog, faults>>
    /\ UNCHANGED <<coreVars, subVars, relVars>>
    /\ UNCHANGED cfgVars

\* The control plane deletes the expected stage of a subtask.
StoreDeleteStage(t) ==
    /\ CanWrite
    /\ stStage[t] # "None"
    /\ rev' = rev + 1
    /\ stStage' = [stStage EXCEPT ![t] = "None"]
    /\ subLog' = Append(subLog, DeleteRecord(t, rev + 1, stCfg[t]))
    /\ UNCHANGED <<stCfg, relStage, relLog, faults>>
    /\ UNCHANGED <<coreVars, subVars, relVars>>
    /\ UNCHANGED cfgVars

\* The control plane deletes the config of a subtask.
StoreDeleteCfg(t) ==
    /\ CanWrite
    /\ stCfg[t]
    /\ rev' = rev + 1
    /\ stCfg' = [stCfg EXCEPT ![t] = FALSE]
    /\ UNCHANGED <<stStage, subLog, relStage, relLog, faults>>
    /\ UNCHANGED <<coreVars, subVars, relVars>>
    /\ UNCHANGED cfgVars

\* The control plane writes the expected stage of the relay.
StorePutRelayStage(e) ==
    /\ CanWrite
    /\ relStage # e
    /\ rev' = rev + 1
    /\ relStage' = e
    /\ relLog' = Append(relLog, PutRecord(EmptyName, e, rev + 1, FALSE))
    /\ UNCHANGED <<stStage, stCfg, subLog, faults>>
    /\ UNCHANGED <<coreVars, subVars, relVars>>
    /\ UNCHANGED cfgVars

\* The control plane deletes the expected stage of the relay.
StoreDeleteRelayStage ==
    /\ CanWrite
    /\ relStage # "None"
    /\ rev' = rev + 1
    /\ relStage' = "None"
    /\ relLog' = Append(relLog, DeleteRecord(EmptyName, rev + 1, FALSE))
    /\ UNCHANGED <<stStage, stCfg, subLog, faults>>
    /\ UNCHANGED <<coreVars, subVars, relVars>>
    /\ UNCHANGED cfgVars

StoreSubTaskWrite(t) ==
    \/ \E e \in ExpectStages : StorePutSubTask(t, e)
    \/ \E e \in ExpectStages : StorePutStage(t, e)
    \/ StoreDeleteStage(t)
    \/ StoreDeleteCfg(t)

StoreRelayWrite ==
    \/ \E e \in ExpectStages : StorePutRelayStage(e)
    \/ StoreDeleteRelayStage

\* A watch that delivers the oldest record of log whatever from is.
NextRecordOldest(log, from) == log[1]

\* The first record of log with a revision of at least from, if any.
HasNext(log, from) == \E i \in 1..Len(log) : log[i].rev >= from
NextRecord(log, from) ==
    log[CHOOSE i \in 1..Len(log) :
            /\ log[i].rev >= from
            /\ \A j \in 1..Len(log) : log[j].rev >= from => i <= j]

\* ------------------------------------------------------------ configuration

\* A binlog location: the file "base|suffix.seq" and an offset in it.  NoLoc
\* stands for a subtask without a persisted checkpoint.
Locs == [suffix : 1..MaxSuffix, seq : 1..MaxSeq, pos : 0..1]
NoLoc == [suffix |-> 0, seq |-> 0, pos |-> 0]

\* binlog.MinUUIDSuffix.
MinUUIDSuffix == 1

\* binlog.ComparePosition: by file, then by offset.
LocBefore(a, b) ==
    \/ a.suffix < b.suffix
    \/ a.suffix = b.suffix /\ a.seq < b.seq
    \/ a.suffix = b.suffix /\ a.seq = b.seq /\ a.pos <= b.pos

\* A variant that returns the latest checkpoint.
getMaxLocInAllSubTasks(cfgs, ck) ==
    LET S == {ck[t] : t \in cfgs} \ {NoLoc}
    IN IF S = {} THEN NoLoc
       ELSE CHOOSE m \in S : \A x \in S : LocBefore(x, m)

\* getMinLocInAllSubTasks: the earliest checkpoint of the subtasks, NoLoc (nil)
\* when none of them has one.
getMinLocInAllSubTasks(cfgs, ck) ==
    LET S == {ck[t] : t \in cfgs} \ {NoLoc}
    IN IF S = {} THEN NoLoc
       ELSE CHOOSE m \in S : \A x \in S : LocBefore(m, x)

\* binlog.ExtractSuffix: the suffix in a file name.
ExtractSuffix(loc) == loc.suffix

\* binlog.AdjustPosition: the file name with the suffix removed.
AdjustPosition(loc) == loc.seq

\* w.cfg before EnableRelay.
NoRelayStart == [UUIDSuffix |-> 0, RelayBinLogName |-> 0]

\* EnableRelay, step 1: w.cfg after the relay start position is adjusted.
RelayStartConfig(c, cfgs, ck) ==
    LET minLoc == getMinLocInAllSubTasks(cfgs, ck)
    IN IF minLoc # NoLoc
       THEN [c EXCEPT !.RelayBinLogName = AdjustPosition(minLoc),
                      !.UUIDSuffix = ExtractSuffix(minLoc)]
       ELSE [c EXCEPT !.UUIDSuffix = MinUUIDSuffix]

\* Event filter rules: a table pattern and what to do with its events; a rule
\* whose action is neither Ignore nor Do is not valid.
Patterns == {"t", "T", "u"}
ToLower(pat) == IF pat = "T" THEN "t" ELSE pat
FilterRule == [pat : Patterns, action : {"Ignore", "Do", "Bad"}]
RuleValid(r) == r.action \in {"Ignore", "Do"}

\* The key under which the compiled filter holds a rule.
RuleKey(caseSensitive, r) == IF caseSensitive THEN r.pat ELSE ToLower(r.pat)

\* bf.NewBinlogEvent: the keys of the compiled filter; each rule is added with
\* AddRule, and the first one that is not valid or already exists is an error.
RECURSIVE AddRules(_, _, _)
AddRules(caseSensitive, keys, rules) ==
    IF rules = <<>> THEN [ok |-> TRUE, keys |-> keys]
    ELSE IF \/ ~RuleValid(Head(rules))
            \/ RuleKey(caseSensitive, Head(rules)) \in keys
         THEN [ok |-> FALSE, keys |-> keys]
         ELSE AddRules(caseSensitive,
                       keys \cup {RuleKey(caseSensitive, Head(rules))},
                       Tail(rules))

NewBinlogEvent(caseSensitive, rules) == AddRules(caseSensitive, {}, rules)

\* A merge that appends a source rule although the task has the same rule.
RECURSIVE MergeFiltersKeepBoth(_, _, _)
MergeFiltersKeepBoth(cfg, keys, filters) ==
    IF filters = <<>> THEN [cfg |-> cfg, err |-> "none"]
    ELSE IF ~RuleValid(Head(filters)) THEN [cfg |-> cfg, err |-> "InvalidRule"]
    ELSE MergeFiltersKeepBoth(
             [cfg EXCEPT !.FilterRules = Append(@, Head(filters))],
             keys \cup {RuleKey(cfg.CaseSensitive, Head(filters))},
             Tail(filters))

\* copyConfigFromSource, the loop over sourceCfg.Filters: a rule the filter
\* already has is skipped, any other AddRule error is returned, else the rule
\* is appended.
RECURSIVE MergeFilters(_, _, _)
MergeFilters(cfg, keys, filters) ==
    IF filters = <<>> THEN [cfg |-> cfg, err |-> "none"]
    ELSE IF ~RuleValid(Head(filters)) THEN [cfg |-> cfg, err |-> "InvalidRule"]
    ELSE IF RuleKey(cfg.CaseSensitive, Head(filters)) \in keys
         THEN MergeFilters(cfg, keys, Tail(filters))
    ELSE MergeFilters(
             [cfg EXCEPT !.FilterRules = Append(@, Head(filters))],
             keys \cup {RuleKey(cfg.CaseSensitive, Head(filters))},
             Tail(filters))

\* copyConfigFromSource: the task config afterwards and the error returned.
\* Copied stands for From, Flavor, ServerID, RelayDir, EnableGTID, UseRelay and
\* AutoFixGTID.
copyConfigFromSource(cfg, sourceCfg) ==
    LET c1 == [cfg EXCEPT !.Copied = sourceCfg.Copied,
                          !.CaseSensitive = cfg.CaseSensitive
                                                \/ sourceCfg.CaseSensitive]
        filter == NewBinlogEvent(c1.CaseSensitive, c1.FilterRules)
    IN IF ~filter.ok THEN [cfg |-> c1, err |-> "CompileError"]
       ELSE MergeFilters(c1, filter.keys, sourceCfg.Filters)

\* Lists of at most MaxRules filter rules.
RuleLists == UNION {[1..n -> FilterRule] : n \in 0..MaxRules}

SourceConfigs ==
    [Copied : {"src"}, CaseSensitive : BOOLEAN, Filters : RuleLists]
SubTaskConfigs ==
    [Copied : {"zero", "src"}, CaseSensitive : BOOLEAN, FilterRules : RuleLists]

\* No config is being projected.
NoProjection ==
    [applied |-> 0,
     sourceCfg |-> [Copied |-> "src", CaseSensitive |-> FALSE, Filters |-> <<>>],
     cfg |-> [Copied |-> "zero", CaseSensitive |-> FALSE, FilterRules |-> <<>>],
     err |-> "none",
     once |-> [Copied |-> "zero", CaseSensitive |-> FALSE, FilterRules |-> <<>>],
     onceErr |-> "none"]

\* copyConfigFromSource is applied to the task config: by
\* copyConfigFromSourceForEach when the config is fetched from the store, and
\* again by StartSubTask.
CopyConfig ==
    /\ proj.applied < 2
    /\ LET r == copyConfigFromSource(proj.cfg, proj.sourceCfg)
       IN proj' = [proj EXCEPT
                     !.applied = @ + 1,
                     !.cfg = r.cfg,
                     !.err = r.err,
                     !.once = IF proj.applied = 0 THEN r.cfg ELSE @,
                     !.onceErr = IF proj.applied = 0 THEN r.err ELSE @]
    /\ UNCHANGED <<wcfg, ckpt>>
    /\ UNCHANGED <<coreVars, storeVars, subVars, relVars>>

InitCfg ==
    /\ wcfg = NoRelayStart
    /\ ckpt = [t \in Tasks |-> NoLoc]
    /\ proj = NoProjection

\* -------------------------------------------------------------- store errors

\* A follower that takes every error for a retryable one.
IsRetryableErrorAny(err) == err # "none"

\* etcdutil.IsRetryableError.
IsRetryableError(err) == err = "retryable"

\* A follower that goes on without waiting for its watch producer.
ProducerNotAwaited(prod) == TRUE

\* wg.Wait() in a follower's loop returns once the producer has returned.
ProducerJoined(prod) == prod = "exited"

\* -------------------------------------------------------------------- relay

\* relayHolder.Operate: the stage of the relay after op.
RelayOperate(stage, op) ==
    CASE op = "ResumeRelay" -> IF stage = "Paused" THEN "Running" ELSE stage
      [] op = "PauseRelay" -> IF stage = "Running" THEN "Paused" ELSE stage
      [] op = "StopRelay" -> "Stopped"
      [] OTHER -> stage

\* operateRelayStage: the RelayOp chosen for a record, "start" when the relay
\* and the purger are started instead.
RelayOpFor(rh, rec) ==
    CASE rec.expect = "Running" -> IF rh = "New" THEN "start" ELSE "ResumeRelay"
      [] rec.expect = "Paused" -> "PauseRelay"
      [] rec.isDeleted -> "StopRelay"
      [] OTHER -> "InvalidRelayOp"

\* operateRelayStage and operateRelay: the relay holder afterwards.
operateRelayStageHolder(isClosed, rh, rec) ==
    IF RelayOpFor(rh, rec) = "start" THEN "Running"
    ELSE IF isClosed \/ rh = "nil" THEN rh
    ELSE RelayOperate(rh, RelayOpFor(rh, rec))

\* operateRelayStage: the purger afterwards.
operateRelayStagePurger(rp, rh, rec) ==
    IF RelayOpFor(rh, rec) = "start" /\ rp = "inited" THEN "started" ELSE rp

\* EnableRelay, steps 1 and 2: the relay start position is set from the
\* earliest checkpoint, the relay holder and its purger are set up.
EnableRelayInit ==
    /\ relPc = "off"
    /\ relayHolder = "nil"
    /\ relPc' = "inited"
    /\ relayHolder' = "New"
    /\ relayPurger' = "inited"
    /\ UNCHANGED <<closed, ctxDone, wg, lock, subTaskHolder, orphaned, purging,
                   taskStatusChecker, startPc, closePc, teardowns, call, hist, fp,
                   purgerPass>>
    /\ UNCHANGED <<relRev, relEv, relErr, relStageCh, relErrCh, relChClosed,
                   relProd, relFrom, relCtx1Done>>
    /\ UNCHANGED <<storeVars, subVars>>
    /\ wcfg' = RelayStartConfig(wcfg, {t \in Tasks : stCfg[t]}, ckpt)
    /\ UNCHANGED <<ckpt, proj>>

\* EnableRelay, steps 3 and 4: GetRelayStage, start at once when the relay is
\* expected Running and not deleted, then spawn the follower.
StartImmediatelyAnyStage(stage) == stage # "None"

StartImmediately(stage) == stage = "Running"

EnableRelayStart ==
    /\ relPc = "inited"
    /\ relPc' = "open"
    /\ relRev' = rev
    /\ relayHolder' = IF StartImmediately(relStage) THEN "Running" ELSE relayHolder
    /\ relayPurger' = IF StartImmediately(relStage) /\ relayPurger = "inited"
                      THEN "started" ELSE relayPurger
    /\ wg' = wg + 1
    /\ UNCHANGED <<closed, ctxDone, lock, subTaskHolder, orphaned, purging,
                   taskStatusChecker, startPc, closePc, teardowns, call, hist, fp,
                   purgerPass>>
    /\ UNCHANGED <<relEv, relErr, relStageCh, relErrCh, relChClosed, relProd,
                   relFrom, relCtx1Done>>
    /\ UNCHANGED <<storeVars, subVars>>
    /\ UNCHANGED cfgVars

\* observeRelayStage: a new pair of channels, a child context, and the producer
\* goroutine watching from rev+1.
RelOpen ==
    /\ relPc = "open"
    /\ relPc' = "dispatch"
    /\ relStageCh' = <<>>
    /\ relErrCh' = <<>>
    /\ relChClosed' = FALSE
    /\ relCtx1Done' = FALSE
    /\ relProd' = "running"
    /\ relFrom' = relRev + 1
    /\ relErr' = "none"
    /\ UNCHANGED <<relRev, relEv>>
    /\ UNCHANGED <<coreVars, storeVars, subVars>>
    /\ UNCHANGED cfgVars

\* handleRelayStage selects <-ctx.Done().
RelCtxDone ==
    /\ relPc = "dispatch"
    /\ ctxDone
    /\ relPc' = "cancel"
    /\ UNCHANGED <<relRev, relEv, relErr, relStageCh, relErrCh, relChClosed,
                   relProd, relFrom, relCtx1Done>>
    /\ UNCHANGED <<coreVars, storeVars, subVars>>
    /\ UNCHANGED cfgVars

\* handleRelayStage receives from a closed, drained channel.
RelRecvClosed ==
    /\ relPc = "dispatch"
    /\ relChClosed
    /\ relStageCh = <<>> \/ relErrCh = <<>>
    /\ relPc' = "cancel"
    /\ UNCHANGED <<relRev, relEv, relErr, relStageCh, relErrCh, relChClosed,
                   relProd, relFrom, relCtx1Done>>
    /\ UNCHANGED <<coreVars, storeVars, subVars>>
    /\ UNCHANGED cfgVars

\* handleRelayStage receives a stage record.
RelRecvStage ==
    /\ relPc = "dispatch"
    /\ relStageCh # <<>>
    /\ relEv' = Head(relStageCh)
    /\ relStageCh' = Tail(relStageCh)
    /\ relPc' = "apply"
    /\ UNCHANGED <<relRev, relErr, relErrCh, relChClosed, relProd, relFrom,
                   relCtx1Done>>
    /\ UNCHANGED <<coreVars, storeVars, subVars>>
    /\ UNCHANGED cfgVars

\* operateRelayStage on the record in hand (from the watch or from the resync).
RelApply ==
    /\ relPc \in {"apply", "resyncApply"}
    /\ relayHolder' = operateRelayStageHolder(closed, relayHolder, relEv)
    /\ relayPurger' = operateRelayStagePurger(relayPurger, relayHolder, relEv)
    /\ relEv' = NoRecord
    /\ relPc' = IF relPc = "apply" THEN "dispatch" ELSE "open"
    /\ UNCHANGED <<closed, ctxDone, wg, lock, subTaskHolder, orphaned, purging,
                   taskStatusChecker, startPc, closePc, teardowns, call, hist, fp,
                   purgerPass>>
    /\ UNCHANGED <<relRev, relErr, relStageCh, relErrCh, relChClosed, relProd,
                   relFrom, relCtx1Done>>
    /\ UNCHANGED <<storeVars, subVars>>
    /\ UNCHANGED cfgVars

\* handleRelayStage receives an error: it returns a retryable one and logs any
\* other.
RelRecvErr ==
    /\ relPc = "dispatch"
    /\ relErrCh # <<>>
    /\ relErrCh' = Tail(relErrCh)
    /\ IF IsRetryableError(Head(relErrCh))
       THEN relPc' = "cancel" /\ relErr' = Head(relErrCh)
       ELSE UNCHANGED <<relPc, relErr>>
    /\ UNCHANGED <<relRev, relEv, relStageCh, relChClosed, relProd, relFrom,
                   relCtx1Done>>
    /\ UNCHANGED <<coreVars, storeVars, subVars>>
    /\ UNCHANGED cfgVars

\* cancel1().
RelCancel ==
    /\ relPc = "cancel"
    /\ relCtx1Done' = TRUE
    /\ relPc' = "join"
    /\ UNCHANGED <<relRev, relEv, relErr, relStageCh, relErrCh, relChClosed,
                   relProd, relFrom>>
    /\ UNCHANGED <<coreVars, storeVars, subVars>>
    /\ UNCHANGED cfgVars

\* wg.Wait() returns once the producer has returned; observeRelayStage then
\* resyncs after a retryable error and returns otherwise (w.wg.Done()).
RelJoin ==
    /\ relPc = "join"
    /\ ProducerJoined(relProd)
    /\ IF IsRetryableError(relErr)
       THEN relPc' = "resync" /\ UNCHANGED wg
       ELSE relPc' = "exited" /\ wg' = wg - 1
    /\ relProd' = "none"
    /\ relStageCh' = <<>>
    /\ relErrCh' = <<>>
    /\ UNCHANGED <<closed, ctxDone, lock, subTaskHolder, orphaned, relayHolder,
                   relayPurger, purging, taskStatusChecker, startPc, closePc,
                   teardowns, call, hist, fp, purgerPass>>
    /\ UNCHANGED <<relRev, relEv, relErr, relChClosed, relFrom, relCtx1Done>>
    /\ UNCHANGED <<storeVars, subVars>>
    /\ UNCHANGED cfgVars

\* The resync loop selects <-ctx.Done(): observeRelayStage returns.
RelResyncCtxDone ==
    /\ relPc = "resync"
    /\ ctxDone
    /\ relPc' = "exited"
    /\ relErr' = "none"
    /\ wg' = wg - 1
    /\ UNCHANGED <<closed, ctxDone, lock, subTaskHolder, orphaned, relayHolder,
                   relayPurger, purging, taskStatusChecker, startPc, closePc,
                   teardowns, call, hist, fp, purgerPass>>
    /\ UNCHANGED <<relRev, relEv, relStageCh, relErrCh, relChClosed, relProd,
                   relFrom, relCtx1Done>>
    /\ UNCHANGED <<storeVars, subVars>>
    /\ UNCHANGED cfgVars

\* The resync loop reads the relay stage: an empty stage counts as deleted.
RelResyncGet ==
    /\ relPc = "resync"
    /\ relPc' = "resyncApply"
    /\ relErr' = "none"
    /\ relRev' = rev
    /\ relEv' = IF relStage = "None" THEN DeleteRecord(EmptyName, rev, FALSE)
                ELSE PutRecord(EmptyName, relStage, rev, FALSE)
    /\ UNCHANGED <<relStageCh, relErrCh, relChClosed, relProd, relFrom, relCtx1Done>>
    /\ UNCHANGED <<coreVars, storeVars, subVars>>
    /\ UNCHANGED cfgVars

\* The resync loop fails to read the relay stage and retries later.
RelResyncGetFails ==
    /\ relPc = "resync"
    /\ faults < MaxFaults
    /\ faults' = faults + 1
    /\ UNCHANGED <<rev, stStage, stCfg, subLog, relStage, relLog>>
    /\ UNCHANGED <<coreVars, subVars, relVars>>
    /\ UNCHANGED cfgVars

\* The watch producer sends the next relay stage record.
RelProdSend ==
    /\ relProd = "running"
    /\ HasNext(relLog, relFrom)
    /\ Len(relStageCh) < ChanCap
    /\ relStageCh' = Append(relStageCh, NextRecord(relLog, relFrom))
    /\ relFrom' = NextRecord(relLog, relFrom).rev + 1
    /\ UNCHANGED <<relPc, relRev, relEv, relErr, relErrCh, relChClosed, relProd,
                   relCtx1Done>>
    /\ UNCHANGED <<coreVars, storeVars, subVars>>
    /\ UNCHANGED cfgVars

\* The watch fails with a retryable error (or with an error of another kind):
\* the producer sends it; after a retryable one WatchRelayStage returns.
RelProdError(kind) ==
    /\ relProd = "running"
    /\ faults < MaxFaults
    /\ Len(relErrCh) < ChanCap
    /\ faults' = faults + 1
    /\ relErrCh' = Append(relErrCh, kind)
    /\ relProd' = IF kind = "retryable" THEN "returning" ELSE relProd
    /\ UNCHANGED <<rev, stStage, stCfg, subLog, relStage, relLog>>
    /\ UNCHANGED <<relPc, relRev, relEv, relErr, relStageCh, relChClosed, relFrom,
                   relCtx1Done>>
    /\ UNCHANGED <<coreVars, subVars>>
    /\ UNCHANGED cfgVars

\* WatchRelayStage returns (its context is done, or the watch was cancelled):
\* the producer closes both channels.
RelProdExit ==
    /\ \/ relProd = "running" /\ (relCtx1Done \/ ctxDone)
       \/ relProd = "returning"
    /\ relProd' = "exited"
    /\ relChClosed' = TRUE
    /\ UNCHANGED <<relPc, relRev, relEv, relErr, relStageCh, relErrCh, relFrom,
                   relCtx1Done>>
    /\ UNCHANGED <<coreVars, storeVars, subVars>>
    /\ UNCHANGED cfgVars

\* The relay follower without store traffic: set up, wait, shut down.
RelLifecycle ==
    \/ EnableRelayInit
    \/ EnableRelayStart
    \/ RelOpen
    \/ RelCtxDone
    \/ RelRecvClosed
    \/ RelCancel
    \/ RelJoin
    \/ RelProdExit

\* The relay follower applying records and recovering from failed watches.
RelEvents ==
    \/ RelRecvStage
    \/ RelApply
    \/ RelRecvErr
    \/ RelResyncCtxDone
    \/ RelResyncGet
    \/ RelResyncGetFails
    \/ RelProdSend
    \/ \E kind \in {"retryable", "other"} : RelProdError(kind)

\* --------------------------------------------- EnableHandleSubtasks, follower

\* fetchSubTasksAndAdjust: the stages and configs of the source and the store's
\* revision, read together.
Snapshot == [stages |-> stStage, cfgs |-> {t \in Tasks : stCfg[t]}, rev |-> rev]

NoSnapshot == [stages |-> [t \in Tasks |-> "None"], cfgs |-> {}, rev |-> 0]

\* The stage EnableHandleSubtasks finds in the map for a config: the zero value
\* of ha.Stage when the map holds none.
StageOrZero(snap, t) ==
    IF snap.stages[t] = "None" THEN "InvalidStage" ELSE snap.stages[t]

\* EnableHandleSubtasks reads the stages and configs.
EHSFetch ==
    /\ subPc = "off"
    /\ subPc' = "ehs"
    /\ subSnap' = Snapshot
    /\ subTodo' = Snapshot.cfgs
    /\ UNCHANGED <<subRev, subSts, subEv, subCfgName, subErr, subStageCh,
                   subErrCh, subChClosed, subProd, subFrom, subCtx1Done>>
    /\ UNCHANGED <<coreVars, storeVars, relVars>>
    /\ UNCHANGED cfgVars

\* EnableHandleSubtasks calls StartSubTask for the next config of the map.
EHSNext ==
    /\ subPc = "ehs"
    /\ \E t \in subTodo :
          /\ subTodo' = subTodo \ {t}
          /\ call' = [call EXCEPT !["sub"] =
                         NewCall("StartSubTask", t, StageOrZero(subSnap, t), "none")]
    /\ subPc' = "ehsCall"
    /\ UNCHANGED <<closed, ctxDone, wg, lock, subTaskHolder, orphaned, relayHolder,
                   relayPurger, purging, taskStatusChecker, startPc, closePc,
                   teardowns, hist, fp, purgerPass>>
    /\ UNCHANGED <<subRev, subSnap, subSts, subEv, subCfgName, subErr, subStageCh,
                   subErrCh, subChClosed, subProd, subFrom, subCtx1Done>>
    /\ UNCHANGED <<storeVars, relVars>>
    /\ UNCHANGED cfgVars

\* StartSubTask returns to EnableHandleSubtasks (the deferred Unlock runs).
EHSReturn ==
    /\ subPc = "ehsCall"
    /\ call["sub"].pc = "done"
    /\ call' = [call EXCEPT !["sub"] = NoCall]
    /\ lock' = "free"
    /\ subPc' = IF call["sub"].res = "ok" THEN "ehs" ELSE "off"
    /\ UNCHANGED <<closed, ctxDone, wg, subTaskHolder, orphaned, relayHolder,
                   relayPurger, purging, taskStatusChecker, startPc, closePc,
                   teardowns, hist, fp, purgerPass>>
    /\ UNCHANGED <<subRev, subSnap, subTodo, subSts, subEv, subCfgName, subErr,
                   subStageCh, subErrCh, subChClosed, subProd, subFrom, subCtx1Done>>
    /\ UNCHANGED <<storeVars, relVars>>
    /\ UNCHANGED cfgVars

\* Every subtask has been created: w.wg.Add(1) and the follower is spawned with
\* the revision of the read.
EHSSpawn ==
    /\ subPc = "ehs"
    /\ subTodo = {}
    /\ wg' = wg + 1
    /\ subRev' = subSnap.rev
    /\ subSnap' = NoSnapshot
    /\ subPc' = "open"
    /\ UNCHANGED <<closed, ctxDone, lock, subTaskHolder, orphaned, relayHolder,
                   relayPurger, purging, taskStatusChecker, startPc, closePc,
                   teardowns, call, hist, fp, purgerPass>>
    /\ UNCHANGED <<subTodo, subSts, subEv, subCfgName, subErr, subStageCh,
                   subErrCh, subChClosed, subProd, subFrom, subCtx1Done>>
    /\ UNCHANGED <<storeVars, relVars>>
    /\ UNCHANGED cfgVars

\* observeSubtaskStage: a new pair of channels, a child context, and the
\* producer goroutine watching from rev+1.
SubOpen ==
    /\ subPc = "open"
    /\ subPc' = "dispatch"
    /\ subStageCh' = <<>>
    /\ subErrCh' = <<>>
    /\ subChClosed' = FALSE
    /\ subCtx1Done' = FALSE
    /\ subProd' = "running"
    /\ subFrom' = subRev + 1
    /\ subErr' = "none"
    /\ UNCHANGED <<subRev, subSnap, subTodo, subSts, subEv, subCfgName>>
    /\ UNCHANGED <<coreVars, storeVars, relVars>>
    /\ UNCHANGED cfgVars

\* handleSubTaskStage selects <-ctx.Done().
SubCtxDone ==
    /\ subPc = "dispatch"
    /\ ctxDone
    /\ subPc' = "cancel"
    /\ UNCHANGED <<subRev, subSnap, subTodo, subSts, subEv, subCfgName, subErr,
                   subStageCh, subErrCh, subChClosed, subProd, subFrom, subCtx1Done>>
    /\ UNCHANGED <<coreVars, storeVars, relVars>>
    /\ UNCHANGED cfgVars

\* handleSubTaskStage receives from a closed, drained channel.
SubRecvClosed ==
    /\ subPc = "dispatch"
    /\ subChClosed
    /\ subStageCh = <<>> \/ subErrCh = <<>>
    /\ subPc' = "cancel"
    /\ UNCHANGED <<subRev, subSnap, subTodo, subSts, subEv, subCfgName, subErr,
                   subStageCh, subErrCh, subChClosed, subProd, subFrom, subCtx1Done>>
    /\ UNCHANGED <<coreVars, storeVars, relVars>>
    /\ UNCHANGED cfgVars

\* handleSubTaskStage receives a stage record.
SubRecvStage ==
    /\ subPc = "dispatch"
    /\ subStageCh # <<>>
    /\ subEv' = Head(subStageCh)
    /\ subStageCh' = Tail(subStageCh)
    /\ subPc' = "lookup1"
    /\ UNCHANGED <<subRev, subSnap, subTodo, subSts, subCfgName, subErr, subErrCh,
                   subChClosed, subProd, subFrom, subCtx1Done>>
    /\ UNCHANGED <<coreVars, storeVars, relVars>>
    /\ UNCHANGED cfgVars

\* handleSubTaskStage receives an error: it returns a retryable one and logs any
\* other.
SubRecvErr ==
    /\ subPc = "dispatch"
    /\ subErrCh # <<>>
    /\ subErrCh' = Tail(subErrCh)
    /\ IF IsRetryableError(Head(subErrCh))
       THEN subPc' = "cancel" /\ subErr' = Head(subErrCh)
       ELSE UNCHANGED <<subPc, subErr>>
    /\ UNCHANGED <<subRev, subSnap, subTodo, subSts, subEv, subCfgName, subStageCh,
                   subChClosed, subProd, subFrom, subCtx1Done>>
    /\ UNCHANGED <<coreVars, storeVars, relVars>>
    /\ UNCHANGED cfgVars

\* operateSubTaskStageWithoutConfig: whether the config is fetched from the
\* store for this record.
FetchesConfig(h, rec) == rec.expect = "Running" /\ ~findSubTask(h, rec.task)

\* operateSubTaskStageWithoutConfig: the config is fetched at the record's
\* revision when FetchesConfig; a missing config is an error that is logged;
\* otherwise the zero config is passed on.
SubLookup1 ==
    /\ subPc = "lookup1"
    /\ IF FetchesConfig(subTaskHolder, subEv)
       THEN IF subEv.cfg
            THEN subPc' = "lookup2" /\ subCfgName' = subEv.task /\ UNCHANGED subEv
            ELSE subPc' = "dispatch" /\ subCfgName' = EmptyName /\ subEv' = NoRecord
       ELSE subPc' = "lookup2" /\ subCfgName' = EmptyName /\ UNCHANGED subEv
    /\ UNCHANGED <<subRev, subSnap, subTodo, subSts, subErr, subStageCh, subErrCh,
                   subChClosed, subProd, subFrom, subCtx1Done>>
    /\ UNCHANGED <<coreVars, storeVars, relVars>>
    /\ UNCHANGED cfgVars

\* GetSubTaskCfg fails with a retryable error: handleSubTaskStage returns it.
SubGetCfgFails ==
    /\ subPc = "lookup1"
    /\ FetchesConfig(subTaskHolder, subEv)
    /\ faults < MaxFaults
    /\ faults' = faults + 1
    /\ subPc' = "cancel"
    /\ subErr' = "retryable"
    /\ subEv' = NoRecord
    /\ UNCHANGED <<rev, stStage, stCfg, subLog, relStage, relLog>>
    /\ UNCHANGED <<subRev, subSnap, subTodo, subSts, subCfgName, subStageCh,
                   subErrCh, subChClosed, subProd, subFrom, subCtx1Done>>
    /\ UNCHANGED <<coreVars, relVars>>
    /\ UNCHANGED cfgVars

\* operateSubTaskStage: what is done for a record, "create" for StartSubTask.
SubTaskOpFor(h, rec) ==
    CASE rec.expect \in {"Running", "Paused"} ->
            IF ~findSubTask(h, rec.task) THEN "create"
            ELSE IF rec.expect = "Running" THEN "Resume" ELSE "Pause"
      [] rec.isDeleted -> "Stop"
      [] OTHER -> "InvalidOp"

\* operateSubTaskStage: the call it makes, StartSubTask under the Name of the
\* config it was given or OperateSubTask on the record's task.
operateSubTaskStage(h, rec, cfgName) ==
    IF SubTaskOpFor(h, rec) = "create"
    THEN NewCall("StartSubTask", cfgName, rec.expect, "none")
    ELSE NewCall("OperateSubTask", rec.task, SubTaskOpFor(h, rec), "none")

\* operateSubTaskStage on the record received from the watch.
SubLookup2 ==
    /\ subPc = "lookup2"
    /\ call' = [call EXCEPT !["sub"] =
                   operateSubTaskStage(subTaskHolder, subEv, subCfgName)]
    /\ subPc' = "evCall"
    /\ UNCHANGED <<closed, ctxDone, wg, lock, subTaskHolder, orphaned, relayHolder,
                   relayPurger, purging, taskStatusChecker, startPc, closePc,
                   teardowns, hist, fp, purgerPass>>
    /\ UNCHANGED <<subRev, subSnap, subTodo, subSts, subEv, subCfgName, subErr,
                   subStageCh, subErrCh, subChClosed, subProd, subFrom, subCtx1Done>>
    /\ UNCHANGED <<storeVars, relVars>>
    /\ UNCHANGED cfgVars

\* The operation returns to the follower (watch path or resync); its error, if
\* any, is logged and counted.
SubCallReturn ==
    /\ subPc \in {"evCall", "rsCall"}
    /\ call["sub"].pc = "done"
    /\ call' = [call EXCEPT !["sub"] = NoCall]
    /\ lock' = "free"
    /\ subPc' = IF subPc = "evCall" THEN "dispatch" ELSE "rsLoop"
    /\ subEv' = NoRecord
    /\ subCfgName' = EmptyName
    /\ UNCHANGED <<closed, ctxDone, wg, subTaskHolder, orphaned, relayHolder,
                   relayPurger, purging, taskStatusChecker, startPc, closePc,
                   teardowns, hist, fp, purgerPass>>
    /\ UNCHANGED <<subRev, subSnap, subTodo, subSts, subErr, subStageCh, subErrCh,
                   subChClosed, subProd, subFrom, subCtx1Done>>
    /\ UNCHANGED <<storeVars, relVars>>
    /\ UNCHANGED cfgVars

\* cancel1().
SubCancel ==
    /\ subPc = "cancel"
    /\ subCtx1Done' = TRUE
    /\ subPc' = "join"
    /\ UNCHANGED <<subRev, subSnap, subTodo, subSts, subEv, subCfgName, subErr,
                   subStageCh, subErrCh, subChClosed, subProd, subFrom>>
    /\ UNCHANGED <<coreVars, storeVars, relVars>>
    /\ UNCHANGED cfgVars

\* wg.Wait() returns once the producer has returned; observeSubtaskStage then
\* resyncs after a retryable error and returns otherwise (w.wg.Done()).
SubJoin ==
    /\ subPc = "join"
    /\ ProducerJoined(subProd)
    /\ IF IsRetryableError(subErr)
       THEN subPc' = "resync" /\ UNCHANGED wg
       ELSE subPc' = "exited" /\ wg' = wg - 1
    /\ subProd' = "none"
    /\ subStageCh' = <<>>
    /\ subErrCh' = <<>>
    /\ UNCHANGED <<closed, ctxDone, lock, subTaskHolder, orphaned, relayHolder,
                   relayPurger, purging, taskStatusChecker, startPc, closePc,
                   teardowns, call, hist, fp, purgerPass>>
    /\ UNCHANGED <<subRev, subSnap, subTodo, subSts, subEv, subCfgName, subErr,
                   subChClosed, subFrom, subCtx1Done>>
    /\ UNCHANGED <<storeVars, relVars>>
    /\ UNCHANGED cfgVars

\* The resync loop selects <-ctx.Done(): observeSubtaskStage returns.
SubResyncCtxDone ==
    /\ subPc = "resync"
    /\ ctxDone
    /\ subPc' = "exited"
    /\ subErr' = "none"
    /\ wg' = wg - 1
    /\ UNCHANGED <<closed, ctxDone, lock, subTaskHolder, orphaned, relayHolder,
                   relayPurger, purging, taskStatusChecker, startPc, closePc,
                   teardowns, call, hist, fp, purgerPass>>
    /\ UNCHANGED <<subRev, subSnap, subTodo, subSts, subEv, subCfgName, subStageCh,
                   subErrCh, subChClosed, subProd, subFrom, subCtx1Done>>
    /\ UNCHANGED <<storeVars, relVars>>
    /\ UNCHANGED cfgVars

\* resetSubtaskStage: the stages and configs are read, then the names of the
\* local subtasks.
SubResyncFetch ==
    /\ subPc = "resync"
    /\ subPc' = "rsLoop"
    /\ subErr' = "none"
    /\ subSnap' = Snapshot
    /\ subTodo' = Snapshot.cfgs
    /\ subSts' = getAllSubTasks(subTaskHolder)
    /\ UNCHANGED <<subRev, subEv, subCfgName, subStageCh, subErrCh, subChClosed,
                   subProd, subFrom, subCtx1Done>>
    /\ UNCHANGED <<coreVars, storeVars, relVars>>
    /\ UNCHANGED cfgVars

\* resetSubtaskStage fails to read the store: the loop retries later.
SubResyncFetchFails ==
    /\ subPc = "resync"
    /\ faults < MaxFaults
    /\ faults' = faults + 1
    /\ UNCHANGED <<rev, stStage, stCfg, subLog, relStage, relLog>>
    /\ UNCHANGED <<coreVars, subVars, relVars>>
    /\ UNCHANGED cfgVars

\* resetSubtaskStage, first loop: operateSubTaskStage for a config whose stage
\* is in the map, which is then struck from sts.
SubResyncNext ==
    /\ subPc = "rsLoop"
    /\ \E t \in subTodo :
          /\ subTodo' = subTodo \ {t}
          /\ IF subSnap.stages[t] # "None"
             THEN /\ call' = [call EXCEPT !["sub"] =
                                 operateSubTaskStage(subTaskHolder,
                                     PutRecord(t, subSnap.stages[t], subSnap.rev, TRUE), t)]
                  /\ subSts' = subSts \ {t}
                  /\ subPc' = "rsCall"
             ELSE UNCHANGED <<call, subSts, subPc>>
    /\ UNCHANGED <<closed, ctxDone, wg, lock, subTaskHolder, orphaned, relayHolder,
                   relayPurger, purging, taskStatusChecker, startPc, closePc,
                   teardowns, hist, fp, purgerPass>>
    /\ UNCHANGED <<subRev, subSnap, subEv, subCfgName, subErr, subStageCh,
                   subErrCh, subChClosed, subProd, subFrom, subCtx1Done>>
    /\ UNCHANGED <<storeVars, relVars>>
    /\ UNCHANGED cfgVars

\* resetSubtaskStage, second loop: Stop every subtask left in sts.
SubResyncStop ==
    /\ subPc = "rsLoop"
    /\ subTodo = {}
    /\ \E n \in subSts :
          /\ subSts' = subSts \ {n}
          /\ call' = [call EXCEPT !["sub"] = NewCall("OperateSubTask", n, "Stop", "none")]
    /\ subPc' = "rsCall"
    /\ UNCHANGED <<closed, ctxDone, wg, lock, subTaskHolder, orphaned, relayHolder,
                   relayPurger, purging, taskStatusChecker, startPc, closePc,
                   teardowns, hist, fp, purgerPass>>
    /\ UNCHANGED <<subRev, subSnap, subTodo, subEv, subCfgName, subErr, subStageCh,
                   subErrCh, subChClosed, subProd, subFrom, subCtx1Done>>
    /\ UNCHANGED <<storeVars, relVars>>
    /\ UNCHANGED cfgVars

\* resetSubtaskStage returns the revision of its read; the outer loop goes on.
SubResyncDone ==
    /\ subPc = "rsLoop"
    /\ subTodo = {}
    /\ subSts = {}
    /\ subRev' = subSnap.rev
    /\ subPc' = "open"
    /\ UNCHANGED <<subSnap, subTodo, subSts, subEv, subCfgName, subErr, subStageCh,
                   subErrCh, subChClosed, subProd, subFrom, subCtx1Done>>
    /\ UNCHANGED <<coreVars, storeVars, relVars>>
    /\ UNCHANGED cfgVars

\* The watch producer sends the next subtask stage record.
SubProdSend ==
    /\ subProd = "running"
    /\ HasNext(subLog, subFrom)
    /\ Len(subStageCh) < ChanCap
    /\ subStageCh' = Append(subStageCh, NextRecord(subLog, subFrom))
    /\ subFrom' = NextRecord(subLog, subFrom).rev + 1
    /\ UNCHANGED <<subPc, subRev, subSnap, subTodo, subSts, subEv, subCfgName,
                   subErr, subErrCh, subChClosed, subProd, subCtx1Done>>
    /\ UNCHANGED <<coreVars, storeVars, relVars>>
    /\ UNCHANGED cfgVars

\* The watch fails with a retryable error (or with an error of another kind):
\* the producer sends it; after a retryable one WatchSubTaskStage returns.
SubProdError(kind) ==
    /\ subProd = "running"
    /\ faults < MaxFaults
    /\ Len(subErrCh) < ChanCap
    /\ faults' = faults + 1
    /\ subErrCh' = Append(subErrCh, kind)
    /\ subProd' = IF kind = "retryable" THEN "returning" ELSE subProd
    /\ UNCHANGED <<rev, stStage, stCfg, subLog, relStage, relLog>>
    /\ UNCHANGED <<subPc, subRev, subSnap, subTodo, subSts, subEv, subCfgName,
                   subErr, subStageCh, subChClosed, subFrom, subCtx1Done>>
    /\ UNCHANGED <<coreVars, relVars>>
    /\ UNCHANGED cfgVars

\* WatchSubTaskStage returns (its context is done, or the watch was cancelled):
\* the producer closes both channels.
SubProdExit ==
    /\ \/ subProd = "running" /\ (subCtx1Done \/ ctxDone)
       \/ subProd = "returning"
    /\ subProd' = "exited"
    /\ subChClosed' = TRUE
    /\ UNCHANGED <<subPc, subRev, subSnap, subTodo, subSts, subEv, subCfgName,
                   subErr, subStageCh, subErrCh, subFrom, subCtx1Done>>
    /\ UNCHANGED <<coreVars, storeVars, relVars>>
    /\ UNCHANGED cfgVars

EnableHandleSubtasks ==
    \/ EHSFetch
    \/ EHSNext
    \/ EHSReturn
    \/ EHSSpawn

SubFollower ==
    \/ SubOpen
    \/ SubCtxDone
    \/ SubRecvClosed
    \/ SubRecvStage
    \/ SubRecvErr
    \/ SubLookup1
    \/ SubGetCfgFails
    \/ SubLookup2
    \/ SubCallReturn
    \/ SubCancel
    \/ SubJoin
    \/ SubResyncCtxDone
    \/ SubResyncFetch
    \/ SubResyncFetchFails
    \/ SubResyncNext
    \/ SubResyncStop
    \/ SubResyncDone

SubProducer ==
    \/ SubProdSend
    \/ \E kind \in {"retryable", "other"} : SubProdError(kind)
    \/ SubProdExit

\* --------------------------------------------------------- initial states

InitCore ==
    /\ closed = TRUE
    /\ ctxDone = FALSE
    /\ wg = 0
    /\ lock = "free"
    /\ subTaskHolder = EmptyHolder
    /\ orphaned = {}
    /\ relayHolder = "nil"
    /\ relayPurger = "nil"
    /\ purging = FALSE
    /\ taskStatusChecker = "inited"
    /\ startPc = "idle"
    /\ closePc = [c \in Closers |-> "idle"]
    /\ teardowns = 0
    /\ call = [th \in Callers |-> NoCall]
    /\ hist = [calls |-> 0, racedStart |-> {}, onStarted |-> {}]
    /\ fp = NoForbid
    /\ purgerPass = FALSE

InitSub ==
    /\ subPc = "off"
    /\ subRev = 0
    /\ subSnap = NoSnapshot
    /\ subTodo = {}
    /\ subSts = {}
    /\ subEv = NoRecord
    /\ subCfgName = EmptyName
    /\ subErr = "none"
    /\ subStageCh = <<>>
    /\ subErrCh = <<>>
    /\ subChClosed = FALSE
    /\ subProd = "none"
    /\ subFrom = 0
    /\ subCtx1Done = FALSE

InitRel ==
    /\ relPc = "off"
    /\ relRev = 0
    /\ relEv = NoRecord
    /\ relErr = "none"
    /\ relStageCh = <<>>
    /\ relErrCh = <<>>
    /\ relChClosed = FALSE
    /\ relProd = "none"
    /\ relFrom = 0
    /\ relCtx1Done = FALSE

\* The store when the Worker is created: no subtask, any relay stage.
InitStoreEmpty ==
    /\ rev = 1
    /\ stStage = [t \in Tasks |-> "None"]
    /\ stCfg = [t \in Tasks |-> FALSE]
    /\ subLog = <<>>
    /\ relStage \in StoreStages
    /\ relLog = <<>>
    /\ faults = 0

\* The Worker after NewWorker, before Start.
Init == InitCore /\ InitSub /\ InitRel /\ InitStoreEmpty /\ InitCfg

\* The Worker with its local operations, the relay enabled or not, no store
\* traffic.
Next ==
    \/ StartBegin
    \/ StartOpen
    \/ StartExit
    \/ CloseStep("close1")
    \/ RpcInvoke
    \/ CallStep("rpc")
    \/ RpcReturn
    \/ ForbidPurgeStep
    \/ RelLifecycle

Spec == Init /\ [][Next]_vars

\* The tasks the control plane has bound to the Worker's source.
StoreTasks == {"t1"}

\* The store when the Worker is created: each subtask absent, or present with
\* its config and an expected stage.
InitStoreTasks ==
    /\ rev = 1
    /\ stStage \in [Tasks -> StoreStages]
    /\ \A t \in Tasks \ StoreTasks : stStage[t] = "None"
    /\ stCfg = [t \in Tasks |-> stStage[t] # "None"]
    /\ subLog = <<>>
    /\ relStage = "Running"
    /\ relLog = <<>>
    /\ faults = 0

SubInit == InitCore /\ InitSub /\ InitRel /\ InitStoreTasks /\ InitCfg

\* The operations the subtask follower and EnableHandleSubtasks call.
SubCallStep ==
    \/ CallEnter("sub")
    \/ StartSubTaskRecord("sub")
    \/ StartSubTaskRun("sub")
    \/ OperateSubTask("sub")

\* The server enables the subtask follower on a Worker whose Start has opened
\* it.
EnableHandleSubtasksOnOpen ==
    /\ startPc = "running"
    /\ EHSFetch

\* The server enables the relay, if at all, before the subtasks.
EnableRelayFirst ==
    /\ subPc = "off"
    /\ \/ EnableRelayInit
       \/ EnableRelayStart

\* An open Worker following the expected stages of its subtasks while the
\* control plane writes them, with the relay enabled or not and its purger
\* making eviction passes.
SubNext ==
    \/ StartBegin
    \/ StartOpen
    \/ \E t \in StoreTasks : StoreSubTaskWrite(t)
    \/ EnableHandleSubtasksOnOpen
    \/ EHSNext
    \/ EHSReturn
    \/ EHSSpawn
    \/ SubOpen
    \/ SubRecvClosed
    \/ SubRecvStage
    \/ SubRecvErr
    \/ SubLookup1
    \/ SubGetCfgFails
    \/ SubLookup2
    \/ SubCallReturn
    \/ SubCancel
    \/ SubJoin
    \/ SubResyncFetch
    \/ SubResyncFetchFails
    \/ SubResyncNext
    \/ SubResyncStop
    \/ SubResyncDone
    \/ SubProducer
    \/ SubCallStep
    \/ EnableRelayFirst
    \/ RelOpen
    \/ ForbidPurgeStep

SubSpec == SubInit /\ [][SubNext]_vars

\* The operations that the control plane has in flight while Close runs: they
\* take the Worker lock.
LockingCalls ==
    {NewCall("OperateSubTask", t, "Pause", "none") : t \in StoreTasks}

RpcStep ==
    \/ RpcInvokeOf(LockingCalls)
    \/ CallEnter("rpc")
    \/ OperateSubTask("rpc")
    \/ RpcReturn

\* Close is invoked on a running Worker.
CloseOnRunning ==
    /\ startPc = "running" \/ closePc["close1"] # "idle"
    /\ CloseStep("close1")

\* The subtask follower without records to receive: after a failed watch it
\* resyncs, which takes the Worker lock for each subtask.
SubResyncing ==
    \/ SubOpen
    \/ SubCtxDone
    \/ SubRecvClosed
    \/ SubRecvErr
    \/ SubCallReturn
    \/ SubCancel
    \/ SubJoin
    \/ SubResyncCtxDone
    \/ SubResyncFetch
    \/ SubResyncNext
    \/ SubResyncDone

\* The purger asks ForbidPurge before each eviction pass.
PurgerStep ==
    \/ ForbidPurgeCall("purger")
    \/ ForbidPurgeCheck
    \/ ForbidPurgeScan
    \/ ForbidPurgeReturn
    \/ PurgerPassEnd

\* The relay follower from its spawn to its exit.
RelFollowing ==
    \/ RelOpen
    \/ RelCtxDone
    \/ RelRecvClosed
    \/ RelCancel
    \/ RelJoin
    \/ RelProdExit

\* A running Worker with its relay and both followers, operations in flight
\* and the purger at work, on which Close is invoked.
CloseNext ==
    \/ StartBegin
    \/ StartOpen
    \/ StartExit
    \/ EnableRelayFirst
    \/ RelFollowing
    \/ EnableHandleSubtasksOnOpen
    \/ EHSNext
    \/ EHSReturn
    \/ EHSSpawn
    \/ SubResyncing
    \/ SubProdError("retryable")
    \/ SubProdExit
    \/ SubCallStep
    \/ RpcStep
    \/ PurgerStep
    \/ CloseOnRunning

\* Every goroutine that can take a step eventually takes one: Start's loop, the
\* followers and their producers, an operation in flight, ForbidPurge and the
\* purger's pass.  Close is scheduled too, and relayPurger.Close() ends the
\* purger's loop: it is not overtaken forever by new passes.
CloseFairness ==
    /\ WF_vars(StartExit)
    /\ WF_vars(RelFollowing)
    /\ WF_vars(EHSNext \/ EHSReturn \/ EHSSpawn)
    /\ WF_vars(SubResyncing)
    /\ WF_vars(SubProdExit)
    /\ WF_vars(SubCallStep)
    /\ WF_vars(CallEnter("rpc") \/ OperateSubTask("rpc") \/ RpcReturn)
    /\ WF_vars(ForbidPurgeCheck \/ ForbidPurgeScan \/ ForbidPurgeReturn \/ PurgerPassEnd)
    /\ WF_vars(CloseStep("close1"))
    /\ SF_vars(ClosePurger("close1"))

CloseSpec == SubInit /\ [][CloseNext]_vars /\ CloseFairness

\* ========================================================= properties

TeardownPcs == {"closeSubTasks", "closePurger", "setClosed"}

\* Close c holds the lock and is tearing the Worker down.
InTeardown(c) == closePc[c] \in TeardownPcs

SubTaskOps == {"StartSubTask", "UpdateSubTask", "OperateSubTask", "OperateSchema",
               "HandleError"}

\* Caller th is inside an operation on the subtasks.
OnSubTasks(th) == call[th].op \in SubTaskOps /\ call[th].pc \in {"in", "mid", "done"}

\* Caller th is inside PurgeRelay, past its check of the closed flag.
InPurgeRelay(th) == call[th].op = "PurgeRelay" /\ call[th].pc \in {"in", "mid"}

\* The operations executing on the subtasks, and on the relay with its purger.
SubTaskMutators ==
    {th \in Callers : OnSubTasks(th)} \cup {c \in Closers : InTeardown(c)}
RelayMutators ==
    {th \in Callers : InPurgeRelay(th)} \cup {c \in Closers : InTeardown(c)}
        \cup (IF relPc \in {"apply", "resyncApply"} THEN {"relay follower"} ELSE {})

\* C2 (as claimed): at most one mutating operation executes on the subtasks,
\* and at most one on the relay with its purger, whatever their origin.
C2_Exclusivity ==
    /\ Cardinality(SubTaskMutators) <= 1
    /\ Cardinality(RelayMutators) <= 1

\* C9 (as claimed): no local mutating RPC executes while the teardown of Close
\* is in progress.
C9_NoRpcDuringTeardown ==
    \A c \in Closers :
       InTeardown(c) => ~(OnSubTasks("rpc") \/ InPurgeRelay("rpc"))

GuardedOps == {"UpdateSubTask", "OperateSubTask", "OperateSchema", "HandleError"}

\* The stages of the recorded subtasks.
StagesOf(h) == [n \in DOMAIN h |-> h[n].stage]

\* C4: on a closed Worker UpdateSubTask, OperateSubTask, OperateSchema,
\* HandleError and PurgeRelay return WorkerAlreadyClosed (also for an absent
\* task) and QueryStatus returns nil; on an open Worker the four operations
\* naming an absent task return SubTaskNotFound; each of these steps leaves the
\* holder's membership, every stage and the relay stage as they were.
C4_ErrorOutcomes ==
    [][\A th \in Callers :
          /\ (/\ call[th].pc = "in"
              /\ call[th].op \in GuardedOps
              /\ call'[th].pc = "done"
              /\ closed \/ ~findSubTask(subTaskHolder, call[th].name))
             => /\ call'[th].res = IF closed THEN "WorkerAlreadyClosed"
                                   ELSE "SubTaskNotFound"
                /\ subTaskHolder' = subTaskHolder
                /\ relayHolder' = relayHolder
          /\ (/\ call[th].pc = "wait"
              /\ call[th].op = "PurgeRelay"
              /\ call'[th].pc # "wait"
              /\ closed)
             => /\ call'[th].pc = "done"
                /\ call'[th].res = "WorkerAlreadyClosed"
                /\ subTaskHolder' = subTaskHolder
                /\ relayHolder' = relayHolder
                /\ purging' = purging
          /\ (/\ call[th].pc = "in"
              /\ call[th].op = "QueryStatus"
              /\ call'[th].pc = "done"
              /\ closed)
             => /\ call'[th].res = "nil"
                /\ subTaskHolder' = subTaskHolder
                /\ relayHolder' = relayHolder]_vars

\* C4 witness: OperateSubTask naming an absent task has returned
\* WorkerAlreadyClosed on a closed Worker.
C4_Witness ==
    /\ closed
    /\ call["rpc"].pc = "done"
    /\ call["rpc"].op = "OperateSubTask"
    /\ call["rpc"].res = "WorkerAlreadyClosed"
    /\ ~findSubTask(subTaskHolder, call["rpc"].name)

\* C5 (as claimed): if some recorded subtask is Paused when ForbidPurge is
\* called, ForbidPurge returns true.
C5_PausedForbids == (fp.pc = "done" /\ fp.paused) => fp.res

\* C5 (amended): ForbidPurge answers (false, "") when it reads closed=true, and
\* otherwise goes on to the subtasks and answers true if one of them is Paused
\* when it reads them.
C5_ForbidPurge ==
    [][/\ (fp.pc = "check" /\ fp'.pc # "check")
          => IF closed THEN fp'.pc = "done" /\ ~fp'.res ELSE fp'.pc = "scan"
       /\ (fp.pc = "scan" /\ fp'.pc # "scan")
          => /\ fp'.pc = "done"
             /\ SomePaused(subTaskHolder) => fp'.res]_vars

\* C5 witness: ForbidPurge has answered true on an open Worker with a Paused
\* subtask.
C5_Witness == fp.pc = "done" /\ fp.res /\ ~closed /\ SomePaused(subTaskHolder)

FailResults == {"WorkerAlreadyClosed", "DecryptFailed", "RelayIsPurging"}

\* The subtask StartSubTask leaves under name: Paused with a failure result and
\* no pipeline, or Run toward expect.
FailedOrRun(h, name, expect) ==
    /\ findSubTask(h, name)
    /\ \/ h[name].stage = "Paused" /\ h[name].result \in FailResults /\ ~h[name].live
       \/ h[name].stage = expect /\ h[name].result = "none" /\ h[name].live

CloseReturned(c) == closePc[c] = "returned"

PausedAsClosed(st) ==
    st.stage = "Paused" /\ st.result = "WorkerAlreadyClosed" /\ ~st.live

\* C7 (as claimed): after Close has returned, a task whose StartSubTask raced
\* with Close is in the holder, Paused with a WorkerAlreadyClosed result, with
\* no pipeline running.
C7_RacedStartIsPaused ==
    \A c \in Closers, t \in hist.racedStart :
       CloseReturned(c)
          => findSubTask(subTaskHolder, t) /\ PausedAsClosed(subTaskHolder[t])

\* C7 (amended): after Close has returned and while the Worker stays closed,
\* every subtask in the holder (none is left by a StartSubTask that took the
\* lock before the teardown) is Paused with a WorkerAlreadyClosed result and has
\* no pipeline, or is the New record of a StartSubTask in progress.
C7_HolderAfterClose ==
    \A c \in Closers, n \in DOMAIN subTaskHolder :
       (CloseReturned(c) /\ closed)
          => \/ PausedAsClosed(subTaskHolder[n])
             \/ /\ subTaskHolder[n].stage = "New"
                /\ \E th \in Callers : call[th].pc = "mid" /\ call[th].name = n

\* C7 witness: Close has returned and a StartSubTask that raced with it has left
\* its task Paused with the WorkerAlreadyClosed result.
C7_Witness ==
    /\ CloseReturned("close1")
    /\ closed
    /\ \E t \in hist.racedStart :
          findSubTask(subTaskHolder, t) /\ PausedAsClosed(subTaskHolder[t])

\* A background loop of the Worker is running: the status-logging loop of
\* Start, or the relay follower or its watch producer.
LoopRunning ==
    \/ startPc \in {"added", "running"}
    \/ relPc \in {"open", "dispatch", "apply", "cancel", "join", "resync",
                 "resyncApply"}
    \/ relProd \in {"running", "returning"}

\* C3 (as claimed): close safety.  Once a Close invoked after Start has
\* returned, the Worker is closed and none of its background loops is running.
C3_CloseSafety ==
    \A c \in hist.onStarted :
        closePc[c] \in {"returned", "returnedEarly"} => closed /\ ~LoopRunning

\* C10: a Close invoked on a running Worker eventually returns with
\* closed=true, whoever waits for the Worker lock and whatever the purger is
\* doing; ForbidPurge never takes or releases the Worker lock, and answers
\* (false, "") when it reads closed=true.
C10_CloseTerminates ==
    /\ (closePc["close1"] = "waitGroup") ~> (closePc["close1"] = "returned" /\ closed)
    /\ [][(fp'.pc # fp.pc /\ fp.pc # "none")
             => /\ lock' = lock
                /\ (fp.pc = "check" /\ closed) => (fp'.pc = "done" /\ ~fp'.res)]_vars

\* C10 witness: Close holds the Worker lock in its teardown while the purger is
\* inside ForbidPurge and the subtask follower has not yet returned from an
\* operation it made under the lock.
C10_Witness ==
    /\ closePc["close1"] = "closePurger"
    /\ lock = "close1"
    /\ fp.pc \in {"check", "scan"}
    /\ fp.by = "purger"
    /\ subPc = "exited"

\* A follower waits for the Worker lock that an operation in flight holds,
\* while Close waits for the follower.
C10_FollowerBlocked ==
    /\ closePc["close1"] = "waitGroup"
    /\ call["sub"].pc = "wait"
    /\ subPc = "rsCall"
    /\ lock = "rpc"

\* ------------------------------------------------- properties of the follower

\* The subtask follower has nothing left to do: it waits in its select with
\* both channels empty, the watch has delivered every record, and no operation
\* or purge is in progress.
SubQuiescent ==
    /\ subPc = "dispatch"
    /\ subStageCh = <<>>
    /\ subErrCh = <<>>
    /\ subProd = "running"
    /\ ~HasNext(subLog, subFrom)
    /\ call["sub"].pc = "none"
    /\ ~purging
    /\ fp.pc = "none"

\* The Worker has been started and is not closed.
WorkerOpen == startPc = "running" /\ ~closed /\ ~ctxDone

\* Task t is locally as the store expects it: in the expected stage when the
\* store holds its config and a stage.
LocalAsExpected(h, stages, cfgs, t) ==
    (stages[t] # "None" /\ t \in cfgs) =>
           findSubTask(h, t) /\ h[t].stage = stages[t]

\* C1 (as claimed): convergence.  On an open Worker, once the follower has
\* handled every record committed to the store and is idle, every subtask is in
\* the stage of its last record.
C1_Convergence ==
    (WorkerOpen /\ SubQuiescent) =>
        \A t \in StoreTasks :
            LocalAsExpected(subTaskHolder, stStage, {u \in Tasks : stCfg[u]}, t)

\* resetSubtaskStage is about to return successfully.
ResyncSucceeds == subPc = "rsLoop" /\ subTodo = {} /\ subSts = {}

\* C8 (as claimed): when resetSubtaskStage succeeds on an open Worker, every
\* task with a stage and a config in the store it read is locally in that
\* stage, and every other subtask has been removed from the holder.
C8_ResyncConverges ==
    (WorkerOpen /\ ResyncSucceeds) =>
        /\ \A t \in Tasks :
              (subSnap.stages[t] # "None" /\ t \in subSnap.cfgs) =>
                  findSubTask(subTaskHolder, t)
                  /\ subTaskHolder[t].stage = subSnap.stages[t]
        /\ \A n \in Names :
              findSubTask(subTaskHolder, n) =>
                  n \in subSnap.cfgs /\ subSnap.stages[n] # "None"

\* EnableHandleSubtasks has called StartSubTask for every config it read and is
\* about to spawn the follower.
InitialStateApplied == subPc = "ehs" /\ subTodo = {}

\* C11 (as claimed): when EnableHandleSubtasks, called after Start, spawns the
\* follower, every task it read with a config and an expected stage is
\* recorded in exactly that stage.
C11_CreatedAsExpected ==
    (InitialStateApplied /\ WorkerOpen) =>
        \A t \in subSnap.cfgs :
            subSnap.stages[t] # "None" =>
                findSubTask(subTaskHolder, t)
                /\ subTaskHolder[t].stage = subSnap.stages[t]

\* ------------------------------------------------------------ the relay alone

\* A Worker whose relay is enabled and follows the relay's expected stage while
\* the control plane writes it; the Worker is started and closed at any time.
RelayNext ==
    \/ StartBegin
    \/ StartOpen
    \/ StartExit
    \/ CloseStep("close1")
    \/ StoreRelayWrite
    \/ RelLifecycle
    \/ RelEvents

RelaySpec == Init /\ [][RelayNext]_vars

\* The records the relay watch has delivered and the dispatcher has not applied
\* yet.
RelDelivered ==
    {relStageCh[i] : i \in 1..Len(relStageCh)}
        \cup (IF relPc = "apply" THEN {relEv} ELSE {})

\* C12: EnableRelay starts the relay and its purger at once exactly when the
\* relay's expected stage, read at revision rRel, is Running (a deleted or
\* absent stage is not), the purger being started from the state in which
\* EnableRelay set it up; it always spawns the follower, whose watch starts at
\* rRel+1 and delivers, in order, every later record and no earlier one.
C12_EnableRelay ==
    [][/\ (relPc = "inited" /\ relPc' = "open") =>
            /\ relayHolder' = "Running" <=> relStage = "Running"
            /\ relayPurger = "inited" =>
                    (relayPurger' = "started" <=> relStage = "Running")
            /\ relStage # "Running" =>
                    relayHolder' = relayHolder /\ relayPurger' = relayPurger
            /\ relRev' = rev
            /\ wg' = wg + 1
       /\ (relPc = "open" /\ relPc' = "dispatch") =>
            relProd' = "running" /\ relFrom' = relRev + 1
       /\ \A r \in RelDelivered' : r.rev > relRev'
       /\ Len(relStageCh') > Len(relStageCh) =>
            \A i \in 1..Len(relLog) :
                (relLog[i].rev > relRev /\ relLog[i].rev < relFrom')
                    => \/ relLog[i].rev < relFrom
                       \/ relLog[i] = relStageCh'[Len(relStageCh')]
      ]_vars

\* EnableRelay found the relay expected Paused and left it unstarted; the watch
\* then delivered the record written after the revision EnableRelay read.
C12_Witness ==
    /\ relPc = "apply"
    /\ relayHolder = "New"
    /\ relayPurger = "inited"
    /\ relEv.rev = relRev + 1
    /\ relEv.expect = "Running"

\* ------------------------------------------------- OperateSubTask on its own

\* The SubTasks StartSubTask leaves in the holder of an open Worker.
StartedSubTasks ==
    {StartSubTaskOutcome(FALSE, f, p, p, NewSubTask, e) :
        f \in {"none", "decrypt"}, p \in BOOLEAN, e \in ExpectStages}

HolderStates == UNION {[S -> StartedSubTasks] : S \in SUBSET Tasks}

\* A Worker that Start has opened, with n goroutines counted in w.wg, and
\* that holds any subtasks.
OpenWorker(n) ==
    /\ closed = FALSE
    /\ ctxDone = FALSE
    /\ wg = n
    /\ lock = "free"
    /\ subTaskHolder \in HolderStates
    /\ orphaned = {}
    /\ relayHolder = "nil"
    /\ relayPurger = "nil"
    /\ purging = FALSE
    /\ taskStatusChecker = "started"
    /\ startPc = "running"
    /\ closePc = [c \in Closers |-> "idle"]
    /\ teardowns = 0
    /\ call = [th \in Callers |-> NoCall]
    /\ hist = [calls |-> 0, racedStart |-> {}, onStarted |-> {}]
    /\ fp = NoForbid
    /\ purgerPass = FALSE

OperateInit ==
    /\ OpenWorker(1)
    /\ InitSub
    /\ InitRel
    /\ InitStoreEmpty
    /\ InitCfg

OperateCalls ==
    {NewCall("OperateSubTask", name, o, "none") : name \in Tasks, o \in TaskOps}

\* The control plane and the status checker operate the subtasks of a running
\* Worker, which is closed at any time.
OperateNext ==
    \/ RpcInvokeOf(OperateCalls)
    \/ CallEnter("rpc")
    \/ OperateSubTask("rpc")
    \/ RpcReturn
    \/ StartExit
    \/ CloseStep("close1")

OperateSpec == OperateInit /\ [][OperateNext]_vars

\* OperateSubTask runs on an open Worker.
OperateSubTaskRuns ==
    /\ call["rpc"].pc = "in"
    /\ call["rpc"].op = "OperateSubTask"
    /\ call'["rpc"].pc = "done"
    /\ ~closed

\* C13: on an open Worker, for a task present locally, Stop removes the
\* SubTask (an operation that finds the name absent returns SubTaskNotFound
\* and changes nothing); Pause, Resume and AutoResume keep the membership of
\* the holder; AutoResume has the effect and the result of Resume; no
\* operation changes another subtask.
C13_OperateSubTask ==
    [][OperateSubTaskRuns =>
        LET c == call["rpc"]
            h == subTaskHolder
        IN IF findSubTask(h, c.name)
           THEN /\ c.arg = "Stop" =>
                      ~findSubTask(subTaskHolder', c.name) /\ call'["rpc"].res = "ok"
                /\ c.arg \in {"Pause", "Resume", "AutoResume"} =>
                      DOMAIN subTaskHolder' = DOMAIN h
                /\ c.arg \in {"Resume", "AutoResume"} =>
                      /\ subTaskHolder'[c.name] = SubTaskResume(h[c.name])
                      /\ call'["rpc"].res = "ok" <=> SubTaskResumeOK(h[c.name])
                /\ \A t \in DOMAIN h \ {c.name} :
                      findSubTask(subTaskHolder', t) /\ subTaskHolder'[t] = h[t]
           ELSE /\ call'["rpc"].res = "SubTaskNotFound"
                /\ subTaskHolder' = h
      ]_vars

\* Stop has returned on an open Worker that held both subtasks: the one it
\* named is gone and the other is still recorded.
C13_Witness ==
    /\ ~closed
    /\ call["rpc"].pc = "done"
    /\ call["rpc"].op = "OperateSubTask"
    /\ call["rpc"].arg = "Stop"
    /\ call["rpc"].res = "ok"
    /\ DOMAIN subTaskHolder = Tasks \ {call["rpc"].name}

\* ------------------------------------------------------- config projection

\* Any source config and any task config as the store holds it.
ProjectInit ==
    /\ InitCore
    /\ InitSub
    /\ InitRel
    /\ InitStoreEmpty
    /\ relStage = "None"
    /\ wcfg = NoRelayStart
    /\ ckpt = [t \in Tasks |-> NoLoc]
    /\ proj \in [applied : {0}, sourceCfg : SourceConfigs, cfg : SubTaskConfigs,
                 err : {"none"}, once : {NoProjection.once},
                 onceErr : {"none"}]

ProjectNext == CopyConfig

ProjectSpec == ProjectInit /\ [][ProjectNext]_vars

\* No two rules of the list have the same key in the compiled filter.
NoDuplicateRules(caseSensitive, rules) ==
    \A i, j \in 1..Len(rules) :
        i # j => RuleKey(caseSensitive, rules[i]) # RuleKey(caseSensitive, rules[j])

\* C14: copyConfigFromSource applied twice leaves the task config (copied
\* fields, case-sensitivity, filter rules) and the error as one application
\* does, and a successful application leaves no duplicate filter rule.
C14_ProjectionIdempotent ==
    /\ proj.applied = 2 => proj.cfg = proj.once /\ proj.err = proj.onceErr
    /\ proj.applied >= 1 =>
          /\ proj.cfg.Copied = proj.sourceCfg.Copied
          /\ proj.sourceCfg.CaseSensitive => proj.cfg.CaseSensitive
          /\ proj.err = "none" =>
                NoDuplicateRules(proj.cfg.CaseSensitive, proj.cfg.FilterRules)

\* Two applications on a case-insensitive pair have succeeded: the task's rule
\* on T was kept over the source's rule on t, and the source's second rule was
\* appended once.
C14_Witness ==
    /\ proj.applied = 2
    /\ proj.err = "none"
    /\ ~proj.cfg.CaseSensitive
    /\ Len(proj.sourceCfg.Filters) = 2
    /\ Len(proj.cfg.FilterRules) = 2
    /\ proj.cfg.FilterRules[1].pat = "T"
    /\ proj.sourceCfg.Filters[1].pat = "t"
    /\ proj.cfg.FilterRules[2] = proj.sourceCfg.Filters[2]

\* ----------------------------------------------------- relay start position

\* The store holds a config for any of the tasks, and each of those subtasks
\* has persisted a checkpoint or has not run yet.
RelayCfgInit ==
    /\ InitCore
    /\ InitSub
    /\ InitRel
    /\ rev = 1
    /\ stCfg \in [Tasks -> BOOLEAN]
    /\ stStage = [t \in Tasks |-> IF stCfg[t] THEN "Running" ELSE "None"]
    /\ subLog = <<>>
    /\ relStage \in StoreStages
    /\ relLog = <<>>
    /\ faults = 0
    /\ wcfg = NoRelayStart
    /\ ckpt \in [Tasks -> Locs \cup {NoLoc}]
    /\ \A t \in Tasks : ~stCfg[t] => ckpt[t] = NoLoc
    /\ proj = NoProjection

RelayCfgNext ==
    \/ EnableRelayInit
    \/ EnableRelayStart
    \/ RelOpen

RelayCfgSpec == RelayCfgInit /\ [][RelayCfgNext]_vars

\* The subtasks the store holds for the source, and their checkpoints.
StoredSubTasks == {t \in Tasks : stCfg[t]}
Checkpoints == {ckpt[t] : t \in StoredSubTasks} \ {NoLoc}

\* w.cfg starts the relay at file m.
StartsAt(m) ==
    /\ wcfg.UUIDSuffix = ExtractSuffix(m)
    /\ wcfg.RelayBinLogName = AdjustPosition(m)

\* C15 (as claimed): after EnableRelay with a non-empty set of stored
\* subtasks, UUIDSuffix and the relay start file are those of the minimum
\* location over the subtasks; with no subtask UUIDSuffix is MinUUIDSuffix.
C15_SuffixBySubTasks ==
    relPc # "off" =>
        IF StoredSubTasks # {}
        THEN \E m \in Checkpoints :
                (\A x \in Checkpoints : LocBefore(m, x)) /\ StartsAt(m)
        ELSE wcfg.UUIDSuffix = MinUUIDSuffix

\* C15 (amended): after EnableRelay, when some stored subtask has a
\* checkpoint, UUIDSuffix and the relay start file are those of the earliest
\* checkpoint; when none has (no subtask, or none that has run), UUIDSuffix
\* is MinUUIDSuffix and the start file is left unset.
C15_SuffixByCheckpoints ==
    relPc # "off" =>
        IF Checkpoints # {}
        THEN \E m \in Checkpoints :
                (\A x \in Checkpoints : LocBefore(m, x)) /\ StartsAt(m)
        ELSE /\ wcfg.UUIDSuffix = MinUUIDSuffix
             /\ wcfg.RelayBinLogName = NoRelayStart.RelayBinLogName

\* EnableRelay has run with two subtasks whose checkpoints are in different
\* relay sub-directories: the relay starts at the earlier one.
C15_Witness ==
    /\ relPc # "off"
    /\ StoredSubTasks = Tasks
    /\ ckpt["t1"].suffix = MaxSuffix
    /\ ckpt["t2"].suffix = MinUUIDSuffix
    /\ ckpt["t2"].seq = MaxSeq
    /\ StartsAt(ckpt["t2"])

\* ------------------------------------------------------ the event path

\* The follower is creating a subtask for the record it received from the
\* watch.
CreatingFromEvent == subPc = "evCall" /\ call["sub"].op = "StartSubTask"

\* C16 (as claimed): a subtask created for a record received from the watch
\* is created with the config the store held for the record's task at the
\* record's revision, and is recorded under the record's task name.
C16_CreatedFromStoredConfig ==
    /\ CreatingFromEvent => subEv.cfg /\ call["sub"].name = subEv.task
    /\ ~findSubTask(subTaskHolder, EmptyName)

\* ------------------------------------------------- the subtask translation

\* The expected-stage records of ha.Stage: any expect, deleted or not, with or
\* without a config in the store at the record's revision.
StageRecords ==
    [rev : {2}, expect : {"Running", "Paused", "InvalidStage"}, task : Tasks,
     isDeleted : BOOLEAN, cfg : BOOLEAN]

\* An open Worker holding any subtasks, whose follower, watching from
\* revision 2, has been sent one record.  The path from the record to the
\* operation does not read the store's current content.
TranslateInit ==
    /\ OpenWorker(2)
    /\ subPc = "dispatch"
    /\ subRev = 1
    /\ subSnap = NoSnapshot
    /\ subTodo = {}
    /\ subSts = {}
    /\ subEv = NoRecord
    /\ subCfgName = EmptyName
    /\ subErr = "none"
    /\ \E rec \in StageRecords : subStageCh = <<rec>>
    /\ subErrCh = <<>>
    /\ subChClosed = FALSE
    /\ subProd = "running"
    /\ subFrom = 3
    /\ subCtx1Done = FALSE
    /\ InitRel
    /\ rev = 2
    /\ stStage = [t \in Tasks |-> "None"]
    /\ stCfg = [t \in Tasks |-> FALSE]
    /\ subLog = <<>>
    /\ relStage = "None"
    /\ relLog = <<>>
    /\ faults = 0
    /\ InitCfg

TranslateNext ==
    \/ SubRecvStage
    \/ SubLookup1
    \/ SubLookup2
    \/ SubCallStep
    \/ SubCallReturn

TranslateSpec == TranslateInit /\ [][TranslateNext]_vars

\* operateSubTaskStage has chosen what to do for the record in subEv and has
\* not yet done it.
Translated == subPc = "evCall" /\ call["sub"].pc = "wait"

RelayTranslated ==
    /\ relPc \in {"apply", "resyncApply"}
    /\ relPc' \notin {"apply", "resyncApply"}
    /\ ~closed

\* C18 (as claimed): for a relay record s, a holder in stage New is started
\* with its purger and reaches s.expect when s.expect is Running or Paused
\* and s is not deleted; otherwise Running resumes the relay, Paused pauses
\* it and a deleted record stops it.
C18_RelayTranslation ==
    [][RelayTranslated =>
        LET s == relEv
        IN IF relayHolder = "New" /\ s.expect \in {"Running", "Paused"}
              /\ ~s.isDeleted
           THEN /\ relayHolder' = s.expect
                /\ relayPurger = "inited" => relayPurger' = "started"
           ELSE IF s.expect = "Running"
           THEN relayHolder' = RelayOperate(relayHolder, "ResumeRelay")
           ELSE IF s.expect = "Paused"
           THEN relayHolder' = RelayOperate(relayHolder, "PauseRelay")
           ELSE IF s.isDeleted
           THEN relayHolder' = RelayOperate(relayHolder, "StopRelay")
           ELSE relayHolder' = relayHolder
      ]_vars

\* --------------------------------------------------------- both followers

\* The server enables one of the two followers: they share no state but the
\* root context and w.wg, so each is followed on its own.
EnableSubtasksAlone ==
    /\ relPc = "off"
    /\ EnableHandleSubtasksOnOpen

EnableRelayAlone ==
    /\ subPc = "off"
    /\ EnableRelayInit

\* A Worker with one of its followers, the control plane writing the expected
\* stages, the store failing now and then, and Close at any time.
FollowNext ==
    \/ StartBegin
    \/ StartOpen
    \/ StartExit
    \/ CloseOnRunning
    \/ \E t \in StoreTasks : StoreSubTaskWrite(t)
    \/ StoreRelayWrite
    \/ EnableSubtasksAlone
    \/ EHSNext
    \/ EHSReturn
    \/ EHSSpawn
    \/ SubFollower
    \/ SubProducer
    \/ SubCallStep
    \/ EnableRelayAlone
    \/ EnableRelayStart
    \/ RelFollowing
    \/ RelEvents

FollowSpec == SubInit /\ [][FollowNext]_vars

\* The positions of a follower inside its dispatcher and inside its resync.
SubDispatching == {"dispatch", "lookup1", "lookup2", "evCall"}
SubResyncPcs == {"resync", "rsLoop", "rsCall"}
RelDispatching == {"dispatch", "apply"}
RelResyncPcs == {"resync", "resyncApply"}

\* C19, subtask follower: the dispatcher returns only with a retryable error
\* or on a closed channel or cancelled context; an error that is not
\* retryable, from the watch or from applying a record, leaves it dispatching
\* with the pending records untouched; after the join a retryable error leads
\* to the resync and anything else to the exit; the resync is left only for a
\* new watch at the revision it read, or on cancellation of the root context;
\* the new watch starts at that revision plus one.
SubRetryPolicy ==
    /\ (subPc \in SubDispatching /\ subPc' = "cancel") =>
          \/ subErr' = "retryable"
          \/ subErr' = "none" /\ (ctxDone \/ subCtx1Done \/ subChClosed)
    /\ (subPc = "dispatch" /\ Len(subErrCh') < Len(subErrCh)
            /\ Head(subErrCh) # "retryable") =>
          subPc' = "dispatch" /\ subStageCh' = subStageCh
    /\ (subPc \in {"lookup1", "evCall"} /\ subPc' \notin SubDispatching) =>
          subPc' = "cancel" /\ subErr' = "retryable"
    /\ (subPc = "evCall" /\ subPc' # "evCall") =>
          subPc' = "dispatch" /\ subStageCh' = subStageCh
    /\ (subPc = "join" /\ subPc' # "join") =>
          subPc' = IF subErr = "retryable" THEN "resync" ELSE "exited"
    /\ (subPc = "resync" /\ faults' > faults) => subPc' = "resync"
    /\ (subPc \in SubResyncPcs /\ subPc' \notin SubResyncPcs) =>
          \/ subPc' = "open" /\ subRev' = subSnap.rev
          \/ subPc' = "exited" /\ ctxDone
    /\ (subPc = "open" /\ subPc' = "dispatch") => subFrom' = subRev + 1

\* C19, relay follower: the same policy.
RelRetryPolicy ==
    /\ (relPc \in RelDispatching /\ relPc' = "cancel") =>
          \/ relErr' = "retryable"
          \/ relErr' = "none" /\ (ctxDone \/ relCtx1Done \/ relChClosed)
    /\ (relPc = "dispatch" /\ Len(relErrCh') < Len(relErrCh)
            /\ Head(relErrCh) # "retryable") =>
          relPc' = "dispatch" /\ relStageCh' = relStageCh
    /\ (relPc = "apply" /\ relPc' # "apply") =>
          relPc' = "dispatch" /\ relStageCh' = relStageCh
    /\ (relPc = "join" /\ relPc' # "join") =>
          relPc' = IF relErr = "retryable" THEN "resync" ELSE "exited"
    /\ (relPc = "resync" /\ faults' > faults) => relPc' = "resync"
    /\ (relPc = "resync" /\ relPc' = "resyncApply") => relRev' = rev
    /\ (relPc \in RelResyncPcs /\ relPc' \notin RelResyncPcs) =>
          \/ relPc' = "open" /\ relRev' = relRev
          \/ relPc' = "exited" /\ ctxDone
    /\ (relPc = "open" /\ relPc' = "dispatch") => relFrom' = relRev + 1

\* C19: the retry policy of both followers.
C19_RetryPolicy == [][SubRetryPolicy /\ RelRetryPolicy]_vars

\* After a retryable error and a failed resync, a later resync of the
\* subtask follower has succeeded at a revision the control plane wrote in the
\* meantime, and the follower is about to open its new watch.
C19_Witness ==
    /\ subPc = "open"
    /\ subSnap # NoSnapshot
    /\ faults = MaxFaults
    /\ subRev = rev
    /\ rev > 1
    /\ ~ctxDone

\* C20, subtask follower: cancel1 is not called while the dispatcher runs; the
\* producer has returned when the follower passes wg.Wait(), so none is alive
\* during the resync or when the next one is started; the channels of a watch
\* are closed once, by its producer as it returns, and nothing is sent on them
\* afterwards.
SubWatchIsolation ==
    /\ subCtx1Done' => subPc' \notin SubDispatching
    /\ (subPc = "join" /\ subPc' # "join") => subProd = "exited"
    /\ subPc' \in SubResyncPcs \cup {"open", "exited"} =>
          subProd' \in {"none", "exited"}
    /\ (subPc = "open" /\ subPc' = "dispatch") => subProd \in {"none", "exited"}
    /\ (~subChClosed /\ subChClosed') =>
          subProd \in {"running", "returning"} /\ subProd' = "exited"
    /\ (subProd # "exited" /\ subProd' = "exited") => ~subChClosed
    /\ (Len(subStageCh') > Len(subStageCh) \/ Len(subErrCh') > Len(subErrCh)) =>
          ~subChClosed /\ subProd = "running"

\* C20, relay follower: the same isolation.
RelWatchIsolation ==
    /\ relCtx1Done' => relPc' \notin RelDispatching
    /\ (relPc = "join" /\ relPc' # "join") => relProd = "exited"
    /\ relPc' \in RelResyncPcs \cup {"open", "exited"} =>
          relProd' \in {"none", "exited"}
    /\ (relPc = "open" /\ relPc' = "dispatch") => relProd \in {"none", "exited"}
    /\ (~relChClosed /\ relChClosed') =>
          relProd \in {"running", "returning"} /\ relProd' = "exited"
    /\ (relProd # "exited" /\ relProd' = "exited") => ~relChClosed
    /\ (Len(relStageCh') > Len(relStageCh) \/ Len(relErrCh') > Len(relErrCh)) =>
          ~relChClosed /\ relProd = "running"

\* C20: watch isolation in both followers.
C20_WatchIsolation == [][SubWatchIsolation /\ RelWatchIsolation]_vars

\* The subtask follower is in its second watch: the first producer was
\* cancelled, joined and its channels closed, a resync succeeded, and the new
\* producer has sent a record on the new stage channel.
C20_Witness ==
    /\ subPc = "dispatch"
    /\ subSnap # NoSnapshot
    /\ subProd = "running"
    /\ ~subChClosed
    /\ ~subCtx1Done
    /\ subStageCh # <<>>

\* --------------------------------------------------------- revision order

\* The records of a channel are in strictly increasing revision.
Increasing(ch) == \A i, j \in 1..Len(ch) : i < j => ch[i].rev < ch[j].rev

\* Every record of ch has a revision above lo and below hi.
Between(ch, lo, hi) == \A i \in 1..Len(ch) : lo < ch[i].rev /\ ch[i].rev < hi

\* C21, subtask follower: the stage channel holds the records in the order of
\* their revisions, each one above the revision the watch was started after
\* and above the record in hand; handleSubTaskStage takes the record at the
\* head of the channel, and only when no record is in hand and no operation
\* of the follower is running; the record in hand is let go only when its
\* operation has returned (or failed before its call); the channel changes only by a take at its head, a
\* send of a later record at its tail, or the end of its watch, when what is
\* left in it is dropped; a new watch starts after the revision of the resync
\* and so after every record delivered before.
SubRevisionOrder ==
    /\ Increasing(subStageCh')
    /\ Between(subStageCh', subRev', subFrom')
    /\ (subPc' \in SubDispatching /\ subEv' # NoRecord) =>
          /\ subRev' < subEv'.rev
          /\ Between(subStageCh', subEv'.rev, subFrom')
    /\ (subPc = "dispatch" /\ subPc' = "lookup1") =>
          /\ subEv = NoRecord
          /\ call["sub"] = NoCall
          /\ subStageCh # <<>>
          /\ subEv' = Head(subStageCh)
          /\ subStageCh' = Tail(subStageCh)
    /\ (subPc \in SubDispatching /\ subEv # NoRecord /\ subEv' # subEv) =>
          /\ subEv' = NoRecord
          /\ call["sub"] # NoCall => call["sub"].pc = "done"
          /\ call'["sub"] = NoCall
    /\ (call["sub"] = NoCall /\ call'["sub"] # NoCall /\ subPc' = "evCall") =>
          /\ subEv' = subEv
          /\ subEv # NoRecord
    /\ subStageCh' # subStageCh =>
          \/ subStageCh # <<>> /\ subStageCh' = Tail(subStageCh) /\ subPc = "dispatch"
          \/ subStageCh' = <<>> /\ subPc \in {"join", "open"}
          \/ /\ Len(subStageCh') = Len(subStageCh) + 1
             /\ SubSeq(subStageCh', 1, Len(subStageCh)) = subStageCh
    /\ (subPc = "open" /\ subPc' = "dispatch") =>
          /\ subFrom' = subRev + 1
          /\ subFrom' >= subFrom

\* C21, relay follower: the same order.
RelRevisionOrder ==
    /\ Increasing(relStageCh')
    /\ Between(relStageCh', relRev', relFrom')
    /\ (relPc' \in RelDispatching /\ relEv' # NoRecord) =>
          /\ relRev' < relEv'.rev
          /\ Between(relStageCh', relEv'.rev, relFrom')
    /\ (relPc = "dispatch" /\ relPc' = "apply") =>
          /\ relEv = NoRecord
          /\ relStageCh # <<>>
          /\ relEv' = Head(relStageCh)
          /\ relStageCh' = Tail(relStageCh)
    /\ (relPc \in RelDispatching /\ relEv # NoRecord /\ relEv' # relEv) =>
          /\ relPc = "apply"
          /\ relEv' = NoRecord
    /\ relStageCh' # relStageCh =>
          \/ relStageCh # <<>> /\ relStageCh' = Tail(relStageCh) /\ relPc = "dispatch"
          \/ relStageCh' = <<>> /\ relPc \in {"join", "open"}
          \/ /\ Len(relStageCh') = Len(relStageCh) + 1
             /\ SubSeq(relStageCh', 1, Len(relStageCh)) = relStageCh
    /\ (relPc = "open" /\ relPc' = "dispatch") =>
          /\ relFrom' = relRev + 1
          /\ relFrom' >= relFrom

\* C21: revision order.  Within one follower the records the watch delivered
\* are applied one at a time, in the order of their delivery, which is the
\* order of their revisions; the operation of a record begins only after the
\* operation of the record delivered before it has returned, and no record is
\* applied after a record delivered later.
C21_RevisionOrder == [][SubRevisionOrder /\ RelRevisionOrder]_vars

\* The operation of the second record of a watch is running in the subtask
\* follower: the first record of that watch, which has a config, was applied
\* before it, its operation has returned and its subtask is in the holder.
C21_Witness ==
    /\ subPc = "evCall"
    /\ call["sub"] # NoCall
    /\ subEv # NoRecord
    /\ subEv.rev = subRev + 2
    /\ subFrom = subRev + 3
    /\ \E i \in 1..Len(subLog) :
          /\ subLog[i].rev = subRev + 1
          /\ subLog[i].cfg
          /\ subLog[i].task \in DOMAIN subTaskHolder

\* ------------------------------------------------------- holder and subtasks

\* C22 (as claimed): the holder never loses track of a live subtask.  Every
\* SubTask whose pipeline StartSubTask has started and nobody has closed is the
\* record of the holder under its task name: no StartSubTask on a name already
\* present has put a new record in the place of a SubTask that is running.
C22_LiveSubTasksRecorded == orphaned = {}

\* ------------------------------------------------------ concurrent Close

\* The Worker with its local operations and its relay, on which Close is
\* invoked by two callers, one after the other or at the same time.
TwoCloseNext ==
    \/ StartBegin
    \/ StartOpen
    \/ StartExit
    \/ CloseStep("close1")
    \/ CloseStep("close2")
    \/ RpcInvoke
    \/ CallStep("rpc")
    \/ RpcReturn
    \/ RelLifecycle

TwoCloseSpec == Init /\ [][TwoCloseNext]_vars

\* C23 (as claimed): the teardown of Close runs at most once.  Over any number
\* of Close invocations on one Worker, one after the other or at the same
\* time, the sequence that closes the subtasks, the relay, the purger and the
\* checker is executed at most once.
C23_TeardownOnce == teardowns <= 1

====
